---- MODULE Spec2Model ----
(***************************************************************************)
(* bring::RingBuffer<T, Capacity>: a fixed-capacity single-producer /      *)
(* single-consumer ring buffer (include/bring/ring_buffer.hpp).            *)
(*                                                                         *)
(* Every atomic access and every access to a slot is one step.  An acquire *)
(* load of the other side's cursor may return any value of that cursor     *)
(* from the last one this thread has seen up to the latest one: tail_lag   *)
(* and head_lag count the stores that have not yet become visible to the   *)
(* other thread.  A thread always sees the latest value of its own cursor. *)
(***************************************************************************)
EXTENDS Integers, Sequences, FiniteSets, TLC

\* Capacities modelled are the legal ones up to 2^MaxCapLog.
MaxCapLog == 2
\* Number of values the producer pushes (the values are 1..MaxPush).
MaxPush == 6
\* Number of values pushed in the single-threaded object lifetime model.
MaxLifePush == 5

VARIABLES
    Capacity,      \* template parameter of the instance
    head,          \* _head
    tail,          \* _tail
    storage,       \* _storage: slot index -> [st, val]
    ppc,           \* producer: position inside its current call
    pOp,           \* producer: function being called
    item,          \* producer: argument of the call
    current_head,  \* producer local
    next_head,     \* producer local
    push_ret,      \* producer: value returned by its last call
    cpc,           \* consumer: position inside its current call
    cOp,           \* consumer: function being called
    current_tail,  \* consumer local
    delivered,     \* consumer: value moved out of the slot by this call
    out,           \* consumer: the caller's variable passed to try_pop_ip
    cb_count,      \* consumer: invocations of processor by the current call
    pop_ret,       \* consumer: value returned by its last call
    tail_lag,      \* stores of _tail not yet visible to the producer
    head_lag,      \* stores of _head not yet visible to the consumer
    pushed,        \* values of the successful pushes, in order
    popped,        \* values of the successful pops, in order
    opc,           \* observer: position inside its current call
    o_head,        \* observer local: the value loaded from _head
    state_empty,   \* observer: the empty flag of the state it obtained
    state_full,    \* observer: the full flag of the state it obtained
    bufs,          \* buffer objects used by one thread: id -> object
    dtors,         \* value -> destructor calls on slot elements holding it
    l_next,        \* next value pushed by the single thread
    l_ret,         \* the single thread's last call and what it returned
    ub,            \* "none", or how an access through a null _storage ended
    p_tail,        \* producer local: current_tail of its is_empty() call
    c_head,        \* consumer local: current_head of its is_full() call
    o_tail,        \* observer local: current_tail of its is_empty() call
    o_op,          \* observer: function being called
    o_ret,         \* observer: value returned by its last call
    o_pushed,      \* observer's call: pushes published before its first load
    o_popped       \* observer's call: pops retired before its first load

vars == <<Capacity, head, tail, storage, ppc, pOp, item, current_head,
          next_head, push_ret, cpc, cOp, current_tail, delivered, out,
          cb_count, pop_ret, tail_lag, head_lag, pushed, popped,
          opc, o_head, state_empty, state_full,
          bufs, dtors, l_next, l_ret, ub,
          p_tail, c_head, o_tail, o_op, o_ret, o_pushed, o_popped>>

bufferVars == <<Capacity, head, tail, storage>>
producerVars == <<ppc, pOp, item, current_head, next_head, push_ret>>
consumerVars ==
    <<cpc, cOp, current_tail, delivered, out, cb_count, pop_ret>>
observerVars == <<opc, o_head, state_empty, state_full>>

\* what the steps of the producer and of the consumer leave alone
lifeVars == <<bufs, dtors, l_next, l_ret, ub>>
threadVars ==
    <<head, tail, storage, producerVars, consumerVars, tail_lag, head_lag,
      pushed, popped>>
queryVars == <<p_tail, c_head, o_tail, o_op, o_ret, o_pushed, o_popped>>
auxVars == <<observerVars, lifeVars, queryVars>>

----------------------------------------------------------------------------
\* Arithmetic

RECURSIVE BitAnd(_, _)
BitAnd(a, b) ==
    IF a = 0 \/ b = 0 THEN 0
    ELSE (a % 2) * (b % 2) + 2 * BitAnd(a \div 2, b \div 2)

RECURSIVE Pow2(_)
Pow2(n) == IF n = 0 THEN 1 ELSE 2 * Pow2(n - 1)

\* static_assert without "Capacity > 1"
LegalCapacity_any_pow2(c) == BitAnd(c, c - 1) = 0

\* the two static_asserts on Capacity
LegalCapacity(c) == BitAnd(c, c - 1) = 0 /\ c > 1

Capacities == {c \in 1..Pow2(MaxCapLog) : LegalCapacity(c)}

\* the mask taken as Capacity instead of Capacity - 1
Advance_mask_capacity(i) == BitAnd(i + 1, Capacity)

\* (i + 1) & (Capacity - 1)
Advance(i) == BitAnd(i + 1, Capacity - 1)

----------------------------------------------------------------------------
\* Slots

NoVal == 0
Values == 1..MaxPush

FreeSlot == [st |-> "Free", val |-> NoVal]

\* new (get_ptr(idx)) T(...) has started
Writing(idx) == [storage EXCEPT ![idx] = [st |-> "Writing", val |-> NoVal]]

\* new (get_ptr(idx)) T(v) has completed
Constructed(idx, v) == [storage EXCEPT ![idx] = [st |-> "Occupied", val |-> v]]

\* std::move(*element_ptr): the element stays alive, in a moved-from state
MovedFrom(idx) == [storage EXCEPT ![idx].st = "Reading"]

\* the destructor call left out
Destroyed_not(idx) == storage

\* element_ptr->~T()
Destroyed(idx) == [storage EXCEPT ![idx] = FreeSlot]

\* The values a read of *element_ptr can give.  Reading a slot that holds
\* no constructed element, or one that is being written, is undefined:
\* any value may be read.
ReadOf(idx) ==
    IF storage[idx].st = "Occupied" THEN {storage[idx].val}
    ELSE Values \cup {NoVal}

----------------------------------------------------------------------------
\* Cursors as seen by the other thread

\* _tail.load(std::memory_order_acquire) by the producer
TailSeen == (tail + Capacity * (tail_lag + 1) - tail_lag) % Capacity

\* _head.load(std::memory_order_acquire) by the consumer
HeadSeen == (head + Capacity * (head_lag + 1) - head_lag) % Capacity

\* an earlier store of _tail becomes visible to the producer
TailVisible ==
    /\ tail_lag > 0
    /\ tail_lag' = tail_lag - 1
    /\ UNCHANGED <<auxVars, bufferVars, producerVars, consumerVars, head_lag,
                   pushed, popped>>

\* an earlier store of _head becomes visible to the consumer
HeadVisible ==
    /\ head_lag > 0
    /\ head_lag' = head_lag - 1
    /\ UNCHANGED <<auxVars, bufferVars, producerVars, consumerVars, tail_lag,
                   pushed, popped>>

----------------------------------------------------------------------------
\* State queries, as functions of the two values they load

\* is_full with the increment left out of next_head
is_full_no_increment(h, t) == BitAnd(h, Capacity - 1) = t

\* is_full(): next_head == _tail.load()
is_full(h, t) == Advance(h) = t

\* is_empty(): current_tail == _head.load()
is_empty(t, h) == t = h

----------------------------------------------------------------------------
\* Buffer objects as one thread sees them, a call at a time: construction,
\* move construction, move assignment and destruction.  owned is FALSE when
\* _storage is null.

BufIds == {1, 2}

AllFree == [i \in 0..(Capacity - 1) |-> FreeSlot]

\* a buffer object that does not exist (yet)
NoBuffer ==
    [life |-> "unborn", head |-> 0, tail |-> 0, owned |-> FALSE,
     slots |-> AllFree]

\* RingBuffer(): _head{0}, _tail{0}, _storage(make_unique<Slot[]>(Capacity))
NewBuffer ==
    [life |-> "alive", head |-> 0, tail |-> 0, owned |-> TRUE,
     slots |-> AllFree]

\* try_push(v) on object B, as one call.  ub: the placement new went
\* through a null _storage
BufTryPush(B, v) ==
    LET cur == B.head
        nxt == BitAnd(cur + 1, Capacity - 1)
    IN  IF nxt = B.tail
        THEN [buf |-> B, ret |-> "false", ub |-> FALSE]
        ELSE IF ~B.owned
        THEN [buf |-> [B EXCEPT !.head = nxt], ret |-> "true", ub |-> TRUE]
        ELSE [buf |-> [B EXCEPT !.slots[cur] = [st |-> "Occupied", val |-> v],
                                !.head = nxt],
              ret |-> "true", ub |-> FALSE]

\* try_pop() on object B, as one call.  ub: the element was read through a
\* null _storage
BufTryPop(B) ==
    LET cur == B.tail
    IN  IF cur = B.head
        THEN [buf |-> B, ret |-> "false", val |-> NoVal, ub |-> FALSE]
        ELSE IF ~B.owned
        THEN [buf |-> [B EXCEPT !.tail = BitAnd(cur + 1, Capacity - 1)],
              ret |-> "true", val |-> NoVal, ub |-> TRUE]
        ELSE [buf |-> [B EXCEPT !.slots[cur] = FreeSlot,
                                !.tail = BitAnd(cur + 1, Capacity - 1)],
              ret |-> "true", val |-> B.slots[cur].val, ub |-> FALSE]

\* try_consume(processor) on object B, as one call
BufTryConsume(B) ==
    LET cur == B.tail
    IN  IF cur = B.head
        THEN [buf |-> B, ret |-> "false", val |-> NoVal, ub |-> FALSE]
        ELSE IF ~B.owned
        THEN [buf |-> [B EXCEPT !.tail = BitAnd(cur + 1, Capacity - 1)],
              ret |-> "true", val |-> NoVal, ub |-> TRUE]
        ELSE [buf |-> [B EXCEPT !.slots[cur] = FreeSlot,
                                !.tail = BitAnd(cur + 1, Capacity - 1)],
              ret |-> "true", val |-> B.slots[cur].val, ub |-> FALSE]

\* while (try_consume([](T &&) {})) {}
RECURSIVE DrainConsume(_)
DrainConsume(B) ==
    LET r == BufTryConsume(B)
    IN  IF r.ret = "true"
        THEN LET d == DrainConsume(r.buf)
             IN  [buf |-> d.buf, vals |-> <<r.val>> \o d.vals,
                  ub |-> r.ub \/ d.ub]
        ELSE [buf |-> B, vals |-> <<>>, ub |-> FALSE]

\* while (try_pop()) {}
RECURSIVE DrainPop(_)
DrainPop(B) ==
    LET r == BufTryPop(B)
    IN  IF r.ret = "true"
        THEN LET d == DrainPop(r.buf)
             IN  [buf |-> d.buf, vals |-> <<r.val>> \o d.vals,
                  ub |-> r.ub \/ d.ub]
        ELSE [buf |-> B, vals |-> <<>>, ub |-> FALSE]

\* a destructor that only releases _storage
Destructor_no_drain(B) ==
    [buf |-> [B EXCEPT !.life = "dead", !.owned = FALSE], vals |-> <<>>,
     ub |-> FALSE]

\* ~RingBuffer(): the drain loop, then the members are destroyed and
\* _storage is released
Destructor(B) ==
    LET d == DrainConsume(B)
    IN  [buf |-> [d.buf EXCEPT !.life = "dead", !.owned = FALSE],
         vals |-> d.vals, ub |-> d.ub]

\* the source of a move that keeps its cursors
MovedFromSource_keeps_cursors(S) == [S EXCEPT !.owned = FALSE, !.slots = AllFree]

\* the source after a move: std::move(other._storage) leaves it null,
\* other._head.store(0); other._tail.store(0)
MovedFromSource(S) ==
    [S EXCEPT !.head = 0, !.tail = 0, !.owned = FALSE, !.slots = AllFree]

\* the destination of a move: _head(other._head), _tail(other._tail),
\* _storage(std::move(other._storage))
MovedToDest(S) ==
    [life |-> "alive", head |-> S.head, tail |-> S.tail, owned |-> S.owned,
     slots |-> S.slots]

\* dtors after the slot elements holding the values of vs were destroyed
CountDtors(vs) ==
    [v \in 1..MaxLifePush |->
        dtors[v] + Cardinality({k \in 1..Len(vs) : vs[k] = v})]

\* RingBuffer(): a second buffer object is constructed
L_Construct(b) ==
    /\ ub # "crashed"
    /\ bufs[b].life = "unborn"
    /\ bufs' = [bufs EXCEPT ![b] = NewBuffer]
    /\ l_ret' = [op |-> "construct", buf |-> b, src |-> 0, ret |-> "none",
                 val |-> NoVal]
    /\ UNCHANGED <<Capacity, threadVars, observerVars, queryVars,
                   dtors, l_next, ub>>

\* try_push(l_next) on object b.  A placement new through a null _storage
\* is undefined: the call may crash the program, or return after writing
\* somewhere else
L_TryPush(b) ==
    /\ ub # "crashed"
    /\ bufs[b].life = "alive"
    /\ l_next <= MaxLifePush
    /\ LET r == BufTryPush(bufs[b], l_next)
       IN  IF r.ub
           THEN \E outcome \in {"crashed", "corrupt"} :
                   /\ ub' = outcome
                   /\ bufs' = IF outcome = "crashed" THEN bufs
                              ELSE [bufs EXCEPT ![b] = r.buf]
                   /\ l_ret' = [op |-> "try_push", buf |-> b, src |-> 0,
                                ret |-> IF outcome = "crashed" THEN "none"
                                        ELSE r.ret,
                                val |-> l_next]
                   /\ l_next' = l_next + 1
           ELSE /\ bufs' = [bufs EXCEPT ![b] = r.buf]
                /\ l_ret' = [op |-> "try_push", buf |-> b, src |-> 0,
                             ret |-> r.ret, val |-> l_next]
                /\ l_next' = IF r.ret = "true" THEN l_next + 1 ELSE l_next
                /\ UNCHANGED ub
    /\ UNCHANGED <<Capacity, threadVars, observerVars, queryVars,
                   dtors>>

\* try_pop() on object b.  Reading the element through a null _storage is
\* undefined: the call may crash, or return any value
L_TryPop(b) ==
    /\ ub # "crashed"
    /\ bufs[b].life = "alive"
    /\ LET r == BufTryPop(bufs[b])
       IN  IF r.ub
           THEN \E outcome \in {"crashed", "corrupt"} :
                \E v \in (0..MaxLifePush) :
                   /\ ub' = outcome
                   /\ bufs' = IF outcome = "crashed" THEN bufs
                              ELSE [bufs EXCEPT ![b] = r.buf]
                   /\ l_ret' = [op |-> "try_pop", buf |-> b, src |-> 0,
                                ret |-> IF outcome = "crashed" THEN "none"
                                        ELSE r.ret,
                                val |-> IF outcome = "crashed" THEN NoVal
                                        ELSE v]
                   /\ UNCHANGED dtors
           ELSE /\ bufs' = [bufs EXCEPT ![b] = r.buf]
                /\ l_ret' = [op |-> "try_pop", buf |-> b, src |-> 0,
                             ret |-> r.ret, val |-> r.val]
                /\ dtors' = IF r.ret = "true" THEN CountDtors(<<r.val>>)
                            ELSE dtors
                /\ UNCHANGED ub
    /\ UNCHANGED <<Capacity, threadVars, observerVars, queryVars,
                   l_next>>

\* RingBuffer(RingBuffer &&other): object dst is constructed from src
L_MoveConstruct(dst, src) ==
    /\ ub # "crashed"
    /\ dst # src
    /\ bufs[dst].life = "unborn"
    /\ bufs[src].life = "alive"
    /\ bufs' = [bufs EXCEPT ![dst] = MovedToDest(bufs[src]),
                            ![src] = MovedFromSource(bufs[src])]
    /\ l_ret' = [op |-> "move_construct", buf |-> dst, src |-> src,
                 ret |-> "none", val |-> NoVal]
    /\ UNCHANGED <<Capacity, threadVars, observerVars, queryVars,
                   dtors, l_next, ub>>

\* a move assignment that takes over the source's cursors and storage
\* first and runs the pop loop afterwards
L_MoveAssign_takeover_first(dst, src) ==
    /\ ub # "crashed"
    /\ bufs[dst].life = "alive"
    /\ bufs[src].life = "alive"
    /\ IF dst = src
       THEN UNCHANGED <<bufs, dtors, ub>>
       ELSE LET d == DrainPop(MovedToDest(bufs[src]))
            IN  /\ bufs' = [bufs EXCEPT ![dst] = d.buf,
                                        ![src] = MovedFromSource(bufs[src])]
                /\ dtors' = IF d.ub THEN dtors ELSE CountDtors(d.vals)
                /\ ub' = IF d.ub THEN "corrupt" ELSE ub
    /\ l_ret' = [op |-> "move_assign", buf |-> dst, src |-> src,
                 ret |-> "none",
                 val |-> IF dst = src THEN NoVal
                         ELSE Len(DrainPop(MovedToDest(bufs[src])).vals)]
    /\ UNCHANGED <<Capacity, threadVars, observerVars, queryVars,
                   l_next>>

\* operator=(RingBuffer &&other): object dst is assigned from src
L_MoveAssign(dst, src) ==
    /\ ub # "crashed"
    /\ bufs[dst].life = "alive"
    /\ bufs[src].life = "alive"
    /\ IF dst = src
       THEN UNCHANGED <<bufs, dtors, ub>>
       ELSE LET d == DrainPop(bufs[dst])
            IN  /\ bufs' = [bufs EXCEPT ![dst] = MovedToDest(bufs[src]),
                                        ![src] = MovedFromSource(bufs[src])]
                /\ dtors' = IF d.ub THEN dtors ELSE CountDtors(d.vals)
                /\ ub' = IF d.ub THEN "corrupt" ELSE ub
    /\ l_ret' = [op |-> "move_assign", buf |-> dst, src |-> src,
                 ret |-> "none",
                 val |-> IF dst = src THEN NoVal
                         ELSE Len(DrainPop(bufs[dst]).vals)]
    /\ UNCHANGED <<Capacity, threadVars, observerVars, queryVars,
                   l_next>>

\* ~RingBuffer() on object b
L_Destroy(b) ==
    /\ ub # "crashed"
    /\ bufs[b].life = "alive"
    /\ LET d == Destructor(bufs[b])
       IN  /\ bufs' = [bufs EXCEPT ![b] = d.buf]
           /\ dtors' = IF d.ub THEN dtors ELSE CountDtors(d.vals)
           /\ ub' = IF d.ub THEN "corrupt" ELSE ub
           /\ l_ret' = [op |-> "destroy", buf |-> b, src |-> 0,
                        ret |-> "none", val |-> Len(d.vals)]
    /\ UNCHANGED <<Capacity, threadVars, observerVars, queryVars,
                   l_next>>

\* One thread constructing, using, moving and destroying buffer objects
NextLife ==
    \/ \E b \in BufIds : L_Construct(b)
    \/ \E b \in BufIds : L_TryPush(b)
    \/ \E b \in BufIds : L_TryPop(b)
    \/ \E dst, src \in BufIds : L_MoveConstruct(dst, src)
    \/ \E dst, src \in BufIds : L_MoveAssign(dst, src)
    \/ \E b \in BufIds : L_Destroy(b)

----------------------------------------------------------------------------
\* the constructor with _tail left without its initialiser
Init_tail_indeterminate ==
    /\ Capacity \in Capacities
    /\ head = 0
    /\ tail \in 0..(Capacity - 1)
    /\ storage = [i \in 0..(Capacity - 1) |-> FreeSlot]
    /\ ppc = "idle"
    /\ pOp = "none"
    /\ item = NoVal
    /\ current_head = 0
    /\ next_head = 0
    /\ push_ret = "none"
    /\ cpc = "idle"
    /\ cOp = "none"
    /\ current_tail = 0
    /\ delivered = NoVal
    /\ out = NoVal
    /\ cb_count = 0
    /\ pop_ret = "none"
    /\ tail_lag = 0
    /\ head_lag = 0
    /\ pushed = <<>>
    /\ popped = <<>>
    /\ opc = "idle"
    /\ o_head = 0
    /\ state_empty = FALSE
    /\ state_full = FALSE
    /\ bufs = [b \in BufIds |-> IF b = 1 THEN NewBuffer ELSE NoBuffer]
    /\ dtors = [v \in 1..MaxLifePush |-> 0]
    /\ l_next = 1
    /\ l_ret = [op |-> "none", buf |-> 0, src |-> 0, ret |-> "none",
                val |-> NoVal]
    /\ ub = "none"
    /\ p_tail = 0
    /\ c_head = 0
    /\ o_tail = 0
    /\ o_op = "none"
    /\ o_ret = "none"
    /\ o_pushed = 0
    /\ o_popped = 0

\* RingBuffer(): the state after construction
Init ==
    /\ Capacity \in Capacities
    /\ head = 0
    /\ tail = 0
    /\ storage = [i \in 0..(Capacity - 1) |-> FreeSlot]
    /\ ppc = "idle"
    /\ pOp = "none"
    /\ item = NoVal
    /\ current_head = 0
    /\ next_head = 0
    /\ push_ret = "none"
    /\ cpc = "idle"
    /\ cOp = "none"
    /\ current_tail = 0
    /\ delivered = NoVal
    /\ out = NoVal
    /\ cb_count = 0
    /\ pop_ret = "none"
    /\ tail_lag = 0
    /\ head_lag = 0
    /\ pushed = <<>>
    /\ popped = <<>>
    /\ opc = "idle"
    /\ o_head = 0
    /\ state_empty = FALSE
    /\ state_full = FALSE
    /\ bufs = [b \in BufIds |-> IF b = 1 THEN NewBuffer ELSE NoBuffer]
    /\ dtors = [v \in 1..MaxLifePush |-> 0]
    /\ l_next = 1
    /\ l_ret = [op |-> "none", buf |-> 0, src |-> 0, ret |-> "none",
                val |-> NoVal]
    /\ ub = "none"
    /\ p_tail = 0
    /\ c_head = 0
    /\ o_tail = 0
    /\ o_op = "none"
    /\ o_ret = "none"
    /\ o_pushed = 0
    /\ o_popped = 0

----------------------------------------------------------------------------
\* Producer: try_push(U &&item)

\* try_push storing _head before it constructs the element
TryPushNext_publish_first(pc) ==
    CASE pc = "load_tail" -> "store_head"
      [] pc = "store_head" -> "new"
      [] pc = "new" -> "constructing"
      [] pc = "constructing" -> "idle"

\* order of the statements of try_push after the load of _head
TryPushNext(pc) ==
    CASE pc = "load_tail" -> "new"
      [] pc = "new" -> "constructing"
      [] pc = "constructing" -> "store_head"
      [] pc = "store_head" -> "idle"

\* const size_t current_head = _head.load(relaxed); next_head = ...
TryPush_LoadHead ==
    /\ ppc = "idle"
    /\ Len(pushed) < MaxPush
    /\ pOp' = "try_push"
    /\ item' = Len(pushed) + 1
    /\ current_head' = head
    /\ next_head' = Advance(head)
    /\ push_ret' = "none"
    /\ ppc' = "load_tail"
    /\ UNCHANGED <<auxVars, bufferVars, consumerVars, tail_lag, head_lag,
                   pushed, popped>>

\* try_push comparing current_head, not next_head, with the tail
TryPush_LoadTail_cmp_current ==
    /\ ppc = "load_tail"
    /\ pOp = "try_push"
    /\ IF current_head = TailSeen
       THEN /\ ppc' = "idle"
            /\ push_ret' = "false"
       ELSE /\ ppc' = TryPushNext(ppc)
            /\ UNCHANGED push_ret
    /\ UNCHANGED <<auxVars, bufferVars, pOp, item, current_head, next_head,
                   consumerVars, tail_lag, head_lag, pushed, popped>>

\* try_push constructing into the slot before it returns false
TryPush_LoadTail_overwrite ==
    /\ ppc = "load_tail"
    /\ pOp = "try_push"
    /\ IF next_head = TailSeen
       THEN /\ ppc' = "idle"
            /\ push_ret' = "false"
            /\ storage' = Constructed(current_head, item)
       ELSE /\ ppc' = TryPushNext(ppc)
            /\ UNCHANGED <<push_ret, storage>>
    /\ UNCHANGED <<auxVars, Capacity, head, tail, pOp, item, current_head,
                   next_head, consumerVars, tail_lag, head_lag, pushed,
                   popped>>

\* try_push dropping the oldest element when the buffer is full
TryPush_LoadTail_drop_oldest ==
    /\ ppc = "load_tail"
    /\ pOp = "try_push"
    /\ IF next_head = TailSeen
       THEN tail' = Advance(tail)
       ELSE tail' = tail
    /\ ppc' = TryPushNext(ppc)
    /\ UNCHANGED <<auxVars, Capacity, head, storage, pOp, item, current_head,
                   next_head, push_ret, consumerVars, tail_lag, head_lag,
                   pushed, popped>>

\* try_push taking the empty buffer for a full one as well
TryPush_LoadTail_full_when_empty ==
    /\ ppc = "load_tail"
    /\ pOp = "try_push"
    /\ IF next_head = TailSeen \/ current_head = TailSeen
       THEN /\ ppc' = "idle"
            /\ push_ret' = "false"
       ELSE /\ ppc' = TryPushNext(ppc)
            /\ UNCHANGED push_ret
    /\ UNCHANGED <<auxVars, bufferVars, pOp, item, current_head, next_head,
                   consumerVars, tail_lag, head_lag, pushed, popped>>

\* try_push without the full check
TryPush_LoadTail_unchecked ==
    /\ ppc = "load_tail"
    /\ pOp = "try_push"
    /\ ppc' = TryPushNext(ppc)
    /\ UNCHANGED <<auxVars, bufferVars, pOp, item, current_head, next_head,
                   push_ret, consumerVars, tail_lag, head_lag, pushed, popped>>

\* if (next_head == _tail.load(acquire)) return false;
TryPush_LoadTail ==
    /\ ppc = "load_tail"
    /\ pOp = "try_push"
    /\ IF next_head = TailSeen
       THEN /\ ppc' = "idle"
            /\ push_ret' = "false"
       ELSE /\ ppc' = TryPushNext(ppc)
            /\ UNCHANGED push_ret
    /\ UNCHANGED <<auxVars, bufferVars, pOp, item, current_head, next_head,
                   consumerVars, tail_lag, head_lag, pushed, popped>>

\* new (get_ptr(current_head)) T(std::forward<U>(item)), beginning
TryPush_New ==
    /\ ppc = "new"
    /\ pOp = "try_push"
    /\ storage' = Writing(current_head)
    /\ ppc' = TryPushNext(ppc)
    /\ UNCHANGED <<auxVars, Capacity, head, tail, pOp, item, current_head,
                   next_head, push_ret, consumerVars, tail_lag, head_lag,
                   pushed, popped>>

\* new (get_ptr(current_head)) T(std::forward<U>(item)), completion
TryPush_Constructed ==
    /\ ppc = "constructing"
    /\ pOp = "try_push"
    /\ storage' = Constructed(current_head, item)
    /\ ppc' = TryPushNext(ppc)
    /\ UNCHANGED <<auxVars, Capacity, head, tail, pOp, item, current_head,
                   next_head, push_ret, consumerVars, tail_lag, head_lag,
                   pushed, popped>>

\* try_push returning true without storing next_head
TryPush_StoreHead_unpublished ==
    /\ ppc = "store_head"
    /\ pOp = "try_push"
    /\ pushed' = Append(pushed, item)
    /\ push_ret' = "true"
    /\ ppc' = TryPushNext(ppc)
    /\ UNCHANGED <<auxVars, bufferVars, pOp, item, current_head, next_head,
                   consumerVars, tail_lag, head_lag, popped>>

\* _head.store(next_head, release); return true;
TryPush_StoreHead ==
    /\ ppc = "store_head"
    /\ pOp = "try_push"
    /\ head' = next_head
    /\ head_lag' = head_lag + 1
    /\ pushed' = Append(pushed, item)
    /\ push_ret' = "true"
    /\ ppc' = TryPushNext(ppc)
    /\ UNCHANGED <<auxVars, Capacity, tail, storage, pOp, item, current_head,
                   next_head, consumerVars, tail_lag, popped>>

----------------------------------------------------------------------------
\* Producer: emplace(Args &&...args)

\* order of the statements of emplace after the load of _head
EmplaceNext(pc) ==
    CASE pc = "load_tail" -> "new"
      [] pc = "new" -> "constructing"
      [] pc = "constructing" -> "store_head"
      [] pc = "store_head" -> "idle"

\* const size_t current_head = _head.load(relaxed); next_head = ...
Emplace_LoadHead ==
    /\ ppc = "idle"
    /\ Len(pushed) < MaxPush
    /\ pOp' = "emplace"
    /\ item' = Len(pushed) + 1
    /\ current_head' = head
    /\ next_head' = Advance(head)
    /\ push_ret' = "none"
    /\ ppc' = "load_tail"
    /\ UNCHANGED <<auxVars, bufferVars, consumerVars, tail_lag, head_lag,
                   pushed, popped>>

\* emplace reporting full one element early
Emplace_LoadTail_early_full ==
    /\ ppc = "load_tail"
    /\ pOp = "emplace"
    /\ IF Advance(next_head) = TailSeen
       THEN /\ ppc' = "idle"
            /\ push_ret' = "false"
       ELSE /\ ppc' = EmplaceNext(ppc)
            /\ UNCHANGED push_ret
    /\ UNCHANGED <<auxVars, bufferVars, pOp, item, current_head, next_head,
                   consumerVars, tail_lag, head_lag, pushed, popped>>

\* emplace without the full check
Emplace_LoadTail_unchecked ==
    /\ ppc = "load_tail"
    /\ pOp = "emplace"
    /\ ppc' = EmplaceNext(ppc)
    /\ UNCHANGED <<auxVars, bufferVars, pOp, item, current_head, next_head,
                   push_ret, consumerVars, tail_lag, head_lag, pushed,
                   popped>>

\* emplace comparing current_head, not next_head, with the tail
Emplace_LoadTail_cmp_current ==
    /\ ppc = "load_tail"
    /\ pOp = "emplace"
    /\ IF current_head = TailSeen
       THEN /\ ppc' = "idle"
            /\ push_ret' = "false"
       ELSE /\ ppc' = EmplaceNext(ppc)
            /\ UNCHANGED push_ret
    /\ UNCHANGED <<auxVars, bufferVars, pOp, item, current_head, next_head,
                   consumerVars, tail_lag, head_lag, pushed, popped>>

\* if (next_head == _tail.load(acquire)) return false;
Emplace_LoadTail ==
    /\ ppc = "load_tail"
    /\ pOp = "emplace"
    /\ IF next_head = TailSeen
       THEN /\ ppc' = "idle"
            /\ push_ret' = "false"
       ELSE /\ ppc' = EmplaceNext(ppc)
            /\ UNCHANGED push_ret
    /\ UNCHANGED <<auxVars, bufferVars, pOp, item, current_head, next_head,
                   consumerVars, tail_lag, head_lag, pushed, popped>>

\* new (get_ptr(current_head)) T(std::forward<Args>(args)...), beginning
Emplace_New ==
    /\ ppc = "new"
    /\ pOp = "emplace"
    /\ storage' = Writing(current_head)
    /\ ppc' = EmplaceNext(ppc)
    /\ UNCHANGED <<auxVars, Capacity, head, tail, pOp, item, current_head,
                   next_head, push_ret, consumerVars, tail_lag, head_lag,
                   pushed, popped>>

\* emplace constructing T() instead of T(args...)
Emplace_Constructed_default ==
    /\ ppc = "constructing"
    /\ pOp = "emplace"
    /\ storage' = Constructed(current_head, NoVal)
    /\ ppc' = EmplaceNext(ppc)
    /\ UNCHANGED <<auxVars, Capacity, head, tail, pOp, item, current_head,
                   next_head, push_ret, consumerVars, tail_lag, head_lag,
                   pushed, popped>>

\* new (get_ptr(current_head)) T(std::forward<Args>(args)...), completion
Emplace_Constructed ==
    /\ ppc = "constructing"
    /\ pOp = "emplace"
    /\ storage' = Constructed(current_head, item)
    /\ ppc' = EmplaceNext(ppc)
    /\ UNCHANGED <<auxVars, Capacity, head, tail, pOp, item, current_head,
                   next_head, push_ret, consumerVars, tail_lag, head_lag,
                   pushed, popped>>

\* _head.store(next_head, release); return true;
Emplace_StoreHead ==
    /\ ppc = "store_head"
    /\ pOp = "emplace"
    /\ head' = next_head
    /\ head_lag' = head_lag + 1
    /\ pushed' = Append(pushed, item)
    /\ push_ret' = "true"
    /\ ppc' = EmplaceNext(ppc)
    /\ UNCHANGED <<auxVars, Capacity, tail, storage, pOp, item, current_head,
                   next_head, consumerVars, tail_lag, popped>>

Producer ==
    \/ TryPush_LoadHead
    \/ TryPush_LoadTail
    \/ TryPush_New
    \/ TryPush_Constructed
    \/ TryPush_StoreHead
    \/ Emplace_LoadHead
    \/ Emplace_LoadTail
    \/ Emplace_New
    \/ Emplace_Constructed
    \/ Emplace_StoreHead

----------------------------------------------------------------------------
\* Consumer: try_pop_ip(T &out)

\* try_pop_ip storing _tail before it moves the element out
TryPopIpNext_retire_first(pc) ==
    CASE pc = "load_head" -> "store_tail"
      [] pc = "store_tail" -> "move"
      [] pc = "move" -> "destroy"
      [] pc = "destroy" -> "idle"

\* order of the statements of try_pop_ip after the load of _tail
TryPopIpNext(pc) ==
    CASE pc = "load_head" -> "move"
      [] pc = "move" -> "destroy"
      [] pc = "destroy" -> "store_tail"
      [] pc = "store_tail" -> "idle"

\* const size_t current_tail = _tail.load(relaxed);
TryPopIp_LoadTail ==
    /\ cpc = "idle"
    /\ cOp' = "try_pop_ip"
    /\ current_tail' = tail
    /\ delivered' = NoVal
    /\ pop_ret' = "none"
    /\ cb_count' = 0
    /\ cpc' = "load_head"
    /\ UNCHANGED <<auxVars, bufferVars, producerVars, out, tail_lag,
                   head_lag, pushed, popped>>

\* try_pop_ip resetting the caller's variable when it returns false
TryPopIp_LoadHead_reset_out ==
    /\ cpc = "load_head"
    /\ cOp = "try_pop_ip"
    /\ IF current_tail = HeadSeen
       THEN /\ cpc' = "idle"
            /\ pop_ret' = "false"
            /\ out' = NoVal
       ELSE /\ cpc' = TryPopIpNext(cpc)
            /\ UNCHANGED <<pop_ret, out>>
    /\ UNCHANGED <<auxVars, bufferVars, producerVars, cOp, current_tail,
                   cb_count, delivered, tail_lag, head_lag, pushed, popped>>

\* try_pop_ip taking the buffer for empty when the slot after tail is head
TryPopIp_LoadHead_cmp_next ==
    /\ cpc = "load_head"
    /\ cOp = "try_pop_ip"
    /\ IF Advance(current_tail) = HeadSeen
       THEN /\ cpc' = "idle"
            /\ pop_ret' = "false"
       ELSE /\ cpc' = TryPopIpNext(cpc)
            /\ UNCHANGED pop_ret
    /\ UNCHANGED <<auxVars, bufferVars, producerVars, cOp, current_tail,
                   cb_count, delivered, out, tail_lag, head_lag, pushed,
                   popped>>

\* if (current_tail == _head.load(acquire)) return false;
TryPopIp_LoadHead ==
    /\ cpc = "load_head"
    /\ cOp = "try_pop_ip"
    /\ IF current_tail = HeadSeen
       THEN /\ cpc' = "idle"
            /\ pop_ret' = "false"
       ELSE /\ cpc' = TryPopIpNext(cpc)
            /\ UNCHANGED pop_ret
    /\ UNCHANGED <<auxVars, bufferVars, producerVars, cOp, current_tail,
                   cb_count, delivered, out, tail_lag, head_lag, pushed,
                   popped>>

\* out = std::move(*element_ptr);
TryPopIp_Move ==
    /\ cpc = "move"
    /\ cOp = "try_pop_ip"
    /\ \E v \in ReadOf(current_tail) :
          /\ out' = v
          /\ delivered' = v
    /\ storage' = MovedFrom(current_tail)
    /\ cpc' = TryPopIpNext(cpc)
    /\ UNCHANGED <<auxVars, Capacity, head, tail, producerVars, cOp,
                   current_tail, cb_count, pop_ret, tail_lag, head_lag,
                   pushed, popped>>

\* element_ptr->~T();
TryPopIp_Destroy ==
    /\ cpc = "destroy"
    /\ cOp = "try_pop_ip"
    /\ storage' = Destroyed(current_tail)
    /\ cpc' = TryPopIpNext(cpc)
    /\ UNCHANGED <<auxVars, Capacity, head, tail, producerVars, cOp,
                   current_tail, cb_count, delivered, out, pop_ret, tail_lag,
                   head_lag, pushed, popped>>

\* _tail.store((current_tail + 1) & (Capacity - 1), release); return true;
TryPopIp_StoreTail ==
    /\ cpc = "store_tail"
    /\ cOp = "try_pop_ip"
    /\ tail' = Advance(current_tail)
    /\ tail_lag' = tail_lag + 1
    /\ popped' = Append(popped, delivered)
    /\ pop_ret' = "true"
    /\ cpc' = TryPopIpNext(cpc)
    /\ UNCHANGED <<auxVars, Capacity, head, storage, producerVars, cOp,
                   current_tail, cb_count, delivered, out, head_lag, pushed>>

----------------------------------------------------------------------------
\* Consumer: try_pop()

\* order of the statements of try_pop after the load of _tail
TryPopNext(pc) ==
    CASE pc = "load_head" -> "move"
      [] pc = "move" -> "destroy"
      [] pc = "destroy" -> "store_tail"
      [] pc = "store_tail" -> "idle"

\* const size_t current_tail = _tail.load(relaxed);
TryPop_LoadTail ==
    /\ cpc = "idle"
    /\ cOp' = "try_pop"
    /\ current_tail' = tail
    /\ delivered' = NoVal
    /\ pop_ret' = "none"
    /\ cb_count' = 0
    /\ cpc' = "load_head"
    /\ UNCHANGED <<auxVars, bufferVars, producerVars, out, tail_lag,
                   head_lag, pushed, popped>>

\* try_pop waiting for an element instead of returning nullopt
TryPop_LoadHead_wait ==
    /\ cpc = "load_head"
    /\ cOp = "try_pop"
    /\ current_tail # HeadSeen
    /\ cpc' = TryPopNext(cpc)
    /\ UNCHANGED <<auxVars, bufferVars, producerVars, cOp, current_tail,
                   cb_count, delivered, out, pop_ret, tail_lag, head_lag,
                   pushed, popped>>

\* if (current_tail == _head.load(acquire)) return std::nullopt;
TryPop_LoadHead ==
    /\ cpc = "load_head"
    /\ cOp = "try_pop"
    /\ IF current_tail = HeadSeen
       THEN /\ cpc' = "idle"
            /\ pop_ret' = "false"
       ELSE /\ cpc' = TryPopNext(cpc)
            /\ UNCHANGED pop_ret
    /\ UNCHANGED <<auxVars, bufferVars, producerVars, cOp, current_tail,
                   cb_count, delivered, out, tail_lag, head_lag, pushed,
                   popped>>

\* try_pop reading the slot after current_tail
TryPop_Move_next_slot ==
    /\ cpc = "move"
    /\ cOp = "try_pop"
    /\ \E v \in ReadOf(Advance(current_tail)) : delivered' = v
    /\ storage' = MovedFrom(current_tail)
    /\ cpc' = TryPopNext(cpc)
    /\ UNCHANGED <<auxVars, Capacity, head, tail, producerVars, cOp,
                   current_tail, cb_count, out, pop_ret, tail_lag, head_lag,
                   pushed, popped>>

\* std::optional<T> result(std::move(*element_ptr));
TryPop_Move ==
    /\ cpc = "move"
    /\ cOp = "try_pop"
    /\ \E v \in ReadOf(current_tail) : delivered' = v
    /\ storage' = MovedFrom(current_tail)
    /\ cpc' = TryPopNext(cpc)
    /\ UNCHANGED <<auxVars, Capacity, head, tail, producerVars, cOp,
                   current_tail, cb_count, out, pop_ret, tail_lag, head_lag,
                   pushed, popped>>

\* element_ptr->~T();
TryPop_Destroy ==
    /\ cpc = "destroy"
    /\ cOp = "try_pop"
    /\ storage' = Destroyed(current_tail)
    /\ cpc' = TryPopNext(cpc)
    /\ UNCHANGED <<auxVars, Capacity, head, tail, producerVars, cOp,
                   current_tail, cb_count, delivered, out, pop_ret, tail_lag,
                   head_lag, pushed, popped>>

\* _tail.store((current_tail + 1) & (Capacity - 1), release); return result;
TryPop_StoreTail ==
    /\ cpc = "store_tail"
    /\ cOp = "try_pop"
    /\ tail' = Advance(current_tail)
    /\ tail_lag' = tail_lag + 1
    /\ popped' = Append(popped, delivered)
    /\ pop_ret' = "true"
    /\ cpc' = TryPopNext(cpc)
    /\ UNCHANGED <<auxVars, Capacity, head, storage, producerVars, cOp,
                   current_tail, cb_count, delivered, out, head_lag, pushed>>

----------------------------------------------------------------------------
\* Consumer: try_consume(Func &&processor)

\* try_consume without the destructor call
TryConsumeNext_no_destroy(pc) ==
    CASE pc = "load_head" -> "move"
      [] pc = "move" -> "store_tail"
      [] pc = "destroy" -> "store_tail"
      [] pc = "store_tail" -> "idle"

\* try_consume storing _tail before it calls the processor
TryConsumeNext_retire_first(pc) ==
    CASE pc = "load_head" -> "store_tail"
      [] pc = "store_tail" -> "move"
      [] pc = "move" -> "destroy"
      [] pc = "destroy" -> "idle"

\* order of the statements of try_consume after the load of _tail
TryConsumeNext(pc) ==
    CASE pc = "load_head" -> "move"
      [] pc = "move" -> "destroy"
      [] pc = "destroy" -> "store_tail"
      [] pc = "store_tail" -> "idle"

\* const size_t current_tail = _tail.load(relaxed);
TryConsume_LoadTail ==
    /\ cpc = "idle"
    /\ cOp' = "try_consume"
    /\ current_tail' = tail
    /\ delivered' = NoVal
    /\ pop_ret' = "none"
    /\ cb_count' = 0
    /\ cpc' = "load_head"
    /\ UNCHANGED <<auxVars, bufferVars, producerVars, out, tail_lag,
                   head_lag, pushed, popped>>

\* if (current_tail == _head.load(acquire)) return false;
TryConsume_LoadHead ==
    /\ cpc = "load_head"
    /\ cOp = "try_consume"
    /\ IF current_tail = HeadSeen
       THEN /\ cpc' = "idle"
            /\ pop_ret' = "false"
       ELSE /\ cpc' = TryConsumeNext(cpc)
            /\ UNCHANGED pop_ret
    /\ UNCHANGED <<auxVars, bufferVars, producerVars, cOp, current_tail,
                   cb_count, delivered, out, tail_lag, head_lag, pushed,
                   popped>>

\* std::forward<Func>(processor)(std::move(*element_ptr));
TryConsume_Move ==
    /\ cpc = "move"
    /\ cOp = "try_consume"
    /\ \E v \in ReadOf(current_tail) : delivered' = v
    /\ cb_count' = cb_count + 1
    /\ storage' = MovedFrom(current_tail)
    /\ cpc' = TryConsumeNext(cpc)
    /\ UNCHANGED <<auxVars, Capacity, head, tail, producerVars, cOp,
                   current_tail, out, pop_ret, tail_lag, head_lag, pushed,
                   popped>>

\* element_ptr->~T();
TryConsume_Destroy ==
    /\ cpc = "destroy"
    /\ cOp = "try_consume"
    /\ storage' = Destroyed(current_tail)
    /\ cpc' = TryConsumeNext(cpc)
    /\ UNCHANGED <<auxVars, Capacity, head, tail, producerVars, cOp,
                   current_tail, cb_count, delivered, out, pop_ret, tail_lag,
                   head_lag, pushed, popped>>

\* _tail.store((current_tail + 1) & (Capacity - 1), release); return true;
TryConsume_StoreTail ==
    /\ cpc = "store_tail"
    /\ cOp = "try_consume"
    /\ tail' = Advance(current_tail)
    /\ tail_lag' = tail_lag + 1
    /\ popped' = Append(popped, delivered)
    /\ pop_ret' = "true"
    /\ cpc' = TryConsumeNext(cpc)
    /\ UNCHANGED <<auxVars, Capacity, head, storage, producerVars, cOp,
                   current_tail, cb_count, delivered, out, head_lag, pushed>>

Consumer ==
    \/ TryPopIp_LoadTail
    \/ TryPopIp_LoadHead
    \/ TryPopIp_Move
    \/ TryPopIp_Destroy
    \/ TryPopIp_StoreTail
    \/ TryPop_LoadTail
    \/ TryPop_LoadHead
    \/ TryPop_Move
    \/ TryPop_Destroy
    \/ TryPop_StoreTail
    \/ TryConsume_LoadTail
    \/ TryConsume_LoadHead
    \/ TryConsume_Move
    \/ TryConsume_Destroy
    \/ TryConsume_StoreTail

----------------------------------------------------------------------------
\* State queries called by the two threads: is_full() by the producer,
\* is_empty() by the consumer

\* const size_t current_head = _head.load(relaxed); next_head = ...
IsFull_LoadHead ==
    /\ ppc = "idle"
    /\ pOp' = "is_full"
    /\ current_head' = head
    /\ next_head' = Advance(head)
    /\ push_ret' = "none"
    /\ ppc' = "full_load_tail"
    /\ UNCHANGED <<auxVars, bufferVars, item, consumerVars, tail_lag,
                   head_lag, pushed, popped>>

\* is_full comparing current_head + 1, not wrapped, with the tail
IsFull_LoadTail_unwrapped ==
    /\ ppc = "full_load_tail"
    /\ pOp = "is_full"
    /\ push_ret' = IF current_head + 1 = TailSeen THEN "true" ELSE "false"
    /\ ppc' = "idle"
    /\ UNCHANGED <<auxVars, bufferVars, pOp, item, current_head, next_head,
                   consumerVars, tail_lag, head_lag, pushed, popped>>

\* return next_head == _tail.load(acquire);
IsFull_LoadTail ==
    /\ ppc = "full_load_tail"
    /\ pOp = "is_full"
    /\ push_ret' = IF is_full(current_head, TailSeen) THEN "true" ELSE "false"
    /\ ppc' = "idle"
    /\ UNCHANGED <<auxVars, bufferVars, pOp, item, current_head, next_head,
                   consumerVars, tail_lag, head_lag, pushed, popped>>

\* const size_t current_tail = _tail.load(relaxed);
IsEmpty_LoadTail ==
    /\ cpc = "idle"
    /\ cOp' = "is_empty"
    /\ current_tail' = tail
    /\ delivered' = NoVal
    /\ pop_ret' = "none"
    /\ cb_count' = 0
    /\ cpc' = "empty_load_head"
    /\ UNCHANGED <<auxVars, bufferVars, producerVars, out, tail_lag,
                   head_lag, pushed, popped>>

\* is_empty comparing the slot after current_tail with the head
IsEmpty_LoadHead_cmp_next ==
    /\ cpc = "empty_load_head"
    /\ cOp = "is_empty"
    /\ pop_ret' = IF Advance(current_tail) = HeadSeen THEN "true" ELSE "false"
    /\ cpc' = "idle"
    /\ UNCHANGED <<auxVars, bufferVars, producerVars, cOp, current_tail,
                   cb_count, delivered, out, tail_lag, head_lag, pushed,
                   popped>>

\* return current_tail == _head.load(acquire);
IsEmpty_LoadHead ==
    /\ cpc = "empty_load_head"
    /\ cOp = "is_empty"
    /\ pop_ret' = IF is_empty(current_tail, HeadSeen) THEN "true" ELSE "false"
    /\ cpc' = "idle"
    /\ UNCHANGED <<auxVars, bufferVars, producerVars, cOp, current_tail,
                   cb_count, delivered, out, tail_lag, head_lag, pushed,
                   popped>>

\* the calls of the producer thread, is_full() included
ProducerQ ==
    \/ Producer
    \/ IsFull_LoadHead
    \/ IsFull_LoadTail

\* the calls of the consumer thread, is_empty() included
ConsumerQ ==
    \/ Consumer
    \/ IsEmpty_LoadTail
    \/ IsEmpty_LoadHead

----------------------------------------------------------------------------
\* Observer thread: get_state(), the combined state query.  It loads the
\* two cursors once and computes both flags from that pair.

\* first load of get_state: _head
GetState_LoadHead ==
    /\ opc = "idle"
    /\ o_head' = head
    /\ state_empty' = FALSE
    /\ state_full' = FALSE
    /\ opc' = "state_load_tail"
    /\ UNCHANGED <<bufferVars, producerVars, consumerVars, tail_lag,
                   head_lag, pushed, popped, lifeVars, queryVars>>

\* second load of get_state: _tail; both flags from the pair (o_head, tail)
GetState_LoadTail ==
    /\ opc = "state_load_tail"
    /\ state_empty' = is_empty(tail, o_head)
    /\ state_full' = is_full(o_head, tail)
    /\ opc' = "idle"
    /\ UNCHANGED <<bufferVars, producerVars, consumerVars, tail_lag,
                   head_lag, pushed, popped, o_head, lifeVars, queryVars>>

Observer ==
    \/ GetState_LoadHead
    \/ GetState_LoadTail

----------------------------------------------------------------------------
\* State queries called from the other side and by a third thread: is_full()
\* and is_empty() take no account of which thread calls them

\* is_empty() by the producer: current_tail = _tail.load(relaxed), a load of
\* the consumer's cursor
IsEmpty_ByProducer_LoadTail ==
    /\ ppc = "idle"
    /\ pOp' = "is_empty"
    /\ p_tail' = TailSeen
    /\ push_ret' = "none"
    /\ ppc' = "empty_load_head"
    /\ UNCHANGED <<observerVars, lifeVars, c_head, o_tail, o_op, o_ret,
                   o_pushed, o_popped, bufferVars, item, current_head,
                   next_head, consumerVars, tail_lag, head_lag, pushed,
                   popped>>

\* is_empty() by the producer: return current_tail == _head.load(acquire),
\* a load of its own cursor
IsEmpty_ByProducer_LoadHead ==
    /\ ppc = "empty_load_head"
    /\ pOp = "is_empty"
    /\ push_ret' = IF is_empty(p_tail, head) THEN "true" ELSE "false"
    /\ ppc' = "idle"
    /\ UNCHANGED <<observerVars, lifeVars, queryVars, bufferVars, pOp, item,
                   current_head, next_head, consumerVars, tail_lag, head_lag,
                   pushed, popped>>

\* is_full() by the consumer: current_head = _head.load(relaxed), a load of
\* the producer's cursor
IsFull_ByConsumer_LoadHead ==
    /\ cpc = "idle"
    /\ cOp' = "is_full"
    /\ c_head' = HeadSeen
    /\ delivered' = NoVal
    /\ pop_ret' = "none"
    /\ cb_count' = 0
    /\ cpc' = "full_load_tail"
    /\ UNCHANGED <<observerVars, lifeVars, p_tail, o_tail, o_op, o_ret,
                   o_pushed, o_popped, bufferVars, producerVars,
                   current_tail, out, tail_lag, head_lag, pushed, popped>>

\* is_full() by the consumer: return next_head == _tail.load(acquire), a
\* load of its own cursor
IsFull_ByConsumer_LoadTail ==
    /\ cpc = "full_load_tail"
    /\ cOp = "is_full"
    /\ pop_ret' = IF is_full(c_head, tail) THEN "true" ELSE "false"
    /\ cpc' = "idle"
    /\ UNCHANGED <<observerVars, lifeVars, queryVars, bufferVars,
                   producerVars, cOp, current_tail, cb_count, delivered, out,
                   tail_lag, head_lag, pushed, popped>>

\* is_full() by a third thread: current_head = _head.load(relaxed)
IsFull_ByObserver_LoadHead ==
    /\ opc = "idle"
    /\ o_op' = "is_full"
    /\ o_head' = head
    /\ o_ret' = "none"
    /\ o_pushed' = Len(pushed)
    /\ o_popped' = Len(popped)
    /\ opc' = "full_load_tail"
    /\ UNCHANGED <<state_empty, state_full, lifeVars, p_tail, c_head, o_tail,
                   bufferVars, producerVars, consumerVars, tail_lag,
                   head_lag, pushed, popped>>

\* is_full() by a third thread: return next_head == _tail.load(acquire)
IsFull_ByObserver_LoadTail ==
    /\ opc = "full_load_tail"
    /\ o_op = "is_full"
    /\ o_ret' = IF is_full(o_head, tail) THEN "true" ELSE "false"
    /\ o_pushed' = 0
    /\ o_popped' = 0
    /\ opc' = "idle"
    /\ UNCHANGED <<o_head, state_empty, state_full, lifeVars, p_tail, c_head,
                   o_tail, o_op, bufferVars, producerVars, consumerVars,
                   tail_lag, head_lag, pushed, popped>>

\* is_empty() by a third thread: current_tail = _tail.load(relaxed)
IsEmpty_ByObserver_LoadTail ==
    /\ opc = "idle"
    /\ o_op' = "is_empty"
    /\ o_tail' = tail
    /\ o_ret' = "none"
    /\ o_pushed' = Len(pushed)
    /\ o_popped' = Len(popped)
    /\ opc' = "empty_load_head"
    /\ UNCHANGED <<o_head, state_empty, state_full, lifeVars, p_tail, c_head,
                   bufferVars, producerVars, consumerVars, tail_lag,
                   head_lag, pushed, popped>>

\* is_empty() by a third thread: return current_tail == _head.load(acquire)
IsEmpty_ByObserver_LoadHead ==
    /\ opc = "empty_load_head"
    /\ o_op = "is_empty"
    /\ o_ret' = IF is_empty(o_tail, head) THEN "true" ELSE "false"
    /\ o_pushed' = 0
    /\ o_popped' = 0
    /\ opc' = "idle"
    /\ UNCHANGED <<o_head, state_empty, state_full, lifeVars, p_tail, c_head,
                   o_tail, o_op, bufferVars, producerVars, consumerVars,
                   tail_lag, head_lag, pushed, popped>>

----------------------------------------------------------------------------
\* One producer thread and one consumer thread running concurrently

Next ==
    \/ Producer
    \/ Consumer
    \/ TailVisible
    \/ HeadVisible

Spec == Init /\ [][Next]_vars

\* Both threads keep running and every store eventually becomes visible
LiveSpec ==
    /\ Init
    /\ [][Next]_vars
    /\ WF_vars(Producer)
    /\ WF_vars(Consumer)
    /\ WF_vars(TailVisible)
    /\ WF_vars(HeadVisible)

\* Calls made one after the other: a call starts only when the other side
\* is idle and has made all its stores visible
NextSeq ==
    \/ (cpc = "idle" /\ tail_lag = 0 /\ Producer)
    \/ (ppc = "idle" /\ head_lag = 0 /\ Consumer)
    \/ TailVisible
    \/ HeadVisible

SpecSeq == Init /\ [][NextSeq]_vars

\* The two threads running concurrently, each also querying the state
NextQuery ==
    \/ ProducerQ
    \/ ConsumerQ
    \/ TailVisible
    \/ HeadVisible

SpecQuery == Init /\ [][NextQuery]_vars

\* A producer calling try_push, a consumer calling try_pop and an observer
\* calling get_state, all three concurrently
NextObs ==
    \/ TryPush_LoadHead
    \/ TryPush_LoadTail
    \/ TryPush_New
    \/ TryPush_Constructed
    \/ TryPush_StoreHead
    \/ TryPop_LoadTail
    \/ TryPop_LoadHead
    \/ TryPop_Move
    \/ TryPop_Destroy
    \/ TryPop_StoreTail
    \/ TailVisible
    \/ HeadVisible
    \/ Observer

SpecObs == Init /\ [][NextObs]_vars

SpecLife == Init /\ [][NextLife]_vars

\* A producer calling try_push and a consumer calling try_pop, each of them
\* also calling is_full() and is_empty()
NextCross ==
    \/ TryPush_LoadHead
    \/ TryPush_LoadTail
    \/ TryPush_New
    \/ TryPush_Constructed
    \/ TryPush_StoreHead
    \/ TryPop_LoadTail
    \/ TryPop_LoadHead
    \/ TryPop_Move
    \/ TryPop_Destroy
    \/ TryPop_StoreTail
    \/ IsFull_LoadHead
    \/ IsFull_LoadTail
    \/ IsEmpty_LoadTail
    \/ IsEmpty_LoadHead
    \/ IsEmpty_ByProducer_LoadTail
    \/ IsEmpty_ByProducer_LoadHead
    \/ IsFull_ByConsumer_LoadHead
    \/ IsFull_ByConsumer_LoadTail
    \/ TailVisible
    \/ HeadVisible

SpecCross == Init /\ [][NextCross]_vars

\* A producer calling try_push, a consumer calling try_pop and a third
\* thread calling is_full() and is_empty()
NextThird ==
    \/ TryPush_LoadHead
    \/ TryPush_LoadTail
    \/ TryPush_New
    \/ TryPush_Constructed
    \/ TryPush_StoreHead
    \/ TryPop_LoadTail
    \/ TryPop_LoadHead
    \/ TryPop_Move
    \/ TryPop_Destroy
    \/ TryPop_StoreTail
    \/ IsFull_ByObserver_LoadHead
    \/ IsFull_ByObserver_LoadTail
    \/ IsEmpty_ByObserver_LoadTail
    \/ IsEmpty_ByObserver_LoadHead
    \/ TailVisible
    \/ HeadVisible

SpecThird == Init /\ [][NextThird]_vars

\* A producer that pushes only after is_full() has returned false, as in
\* "while (buffer.is_full()) yield; try_push(i)", and a consumer that does
\* whatever it likes
NextFullGuard ==
    \/ IsFull_LoadHead
    \/ IsFull_LoadTail
    \/ (pOp = "is_full" /\ push_ret = "false" /\ TryPush_LoadHead)
    \/ (pOp = "is_full" /\ push_ret = "false" /\ Emplace_LoadHead)
    \/ TryPush_LoadTail
    \/ TryPush_New
    \/ TryPush_Constructed
    \/ TryPush_StoreHead
    \/ Emplace_LoadTail
    \/ Emplace_New
    \/ Emplace_Constructed
    \/ Emplace_StoreHead
    \/ ConsumerQ
    \/ TailVisible
    \/ HeadVisible

SpecFullGuard == Init /\ [][NextFullGuard]_vars

\* A consumer that pops only after is_empty() has returned false, as in
\* "if (!buffer.is_empty()) try_pop()", and a producer that does whatever
\* it likes
NextEmptyGuard ==
    \/ IsEmpty_LoadTail
    \/ IsEmpty_LoadHead
    \/ (cOp = "is_empty" /\ pop_ret = "false" /\ TryPopIp_LoadTail)
    \/ (cOp = "is_empty" /\ pop_ret = "false" /\ TryPop_LoadTail)
    \/ (cOp = "is_empty" /\ pop_ret = "false" /\ TryConsume_LoadTail)
    \/ TryPopIp_LoadHead
    \/ TryPopIp_Move
    \/ TryPopIp_Destroy
    \/ TryPopIp_StoreTail
    \/ TryPop_LoadHead
    \/ TryPop_Move
    \/ TryPop_Destroy
    \/ TryPop_StoreTail
    \/ TryConsume_LoadHead
    \/ TryConsume_Move
    \/ TryConsume_Destroy
    \/ TryConsume_StoreTail
    \/ ProducerQ
    \/ TailVisible
    \/ HeadVisible

SpecEmptyGuard == Init /\ [][NextEmptyGuard]_vars

----------------------------------------------------------------------------
TypeOK ==
    /\ Capacity \in Capacities
    /\ head \in 0..(Capacity - 1)
    /\ tail \in 0..(Capacity - 1)
    /\ DOMAIN storage = 0..(Capacity - 1)
    /\ \A i \in DOMAIN storage :
          /\ storage[i].st \in {"Free", "Writing", "Occupied", "Reading"}
          /\ storage[i].val \in Values \cup {NoVal}
    /\ ppc \in {"idle", "load_tail", "new", "constructing", "store_head",
                "full_load_tail", "empty_load_head"}
    /\ cpc \in {"idle", "load_head", "move", "destroy", "store_tail",
                "empty_load_head", "full_load_tail"}
    /\ tail_lag \in 0..(Capacity - 1)
    /\ head_lag \in 0..(Capacity - 1)
    /\ cb_count \in 0..1
    /\ opc \in {"idle", "state_load_tail", "full_load_tail", "empty_load_head"}
    /\ p_tail \in 0..(Capacity - 1)
    /\ c_head \in 0..(Capacity - 1)
    /\ o_tail \in 0..(Capacity - 1)
    /\ o_ret \in {"none", "true", "false"}
    /\ o_pushed \in 0..MaxPush
    /\ o_popped \in 0..MaxPush
    /\ o_head \in 0..(Capacity - 1)
    /\ state_empty \in BOOLEAN
    /\ state_full \in BOOLEAN
    /\ \A b \in BufIds :
          /\ bufs[b].life \in {"unborn", "alive", "dead"}
          /\ bufs[b].head \in 0..(Capacity - 1)
          /\ bufs[b].tail \in 0..(Capacity - 1)
    /\ l_next \in 1..(MaxLifePush + 1)
    /\ ub \in {"none", "crashed", "corrupt"}

----------------------------------------------------------------------------
\* Derived notions used by the properties

\* the slots t, t+1, ..., h-1 (modulo Capacity)
CircRange(t, h) ==
    {(t + k) % Capacity : k \in 0..(((h + Capacity - t) % Capacity) - 1)}

\* slots holding an element that has been constructed and not yet destroyed
LiveSlots == {i \in DOMAIN storage : storage[i].st \in {"Occupied", "Reading"}}

\* the producer has passed the full check and has not yet published
ProducerInSlot == ppc \in {"new", "constructing", "store_head"}

\* the consumer has passed the empty check and has not yet retired the slot
ConsumerInSlot == cpc \in {"move", "destroy", "store_tail"}

\* the producer's call returns in this step
PushReturns == ppc # "idle" /\ ppc' = "idle"

\* the consumer's call returns in this step
PopReturns == cpc # "idle" /\ cpc' = "idle"

\* contents of the bounded FIFO queue the buffer implements
AbsQueue == SubSeq(pushed, Len(popped) + 1, Len(pushed))

----------------------------------------------------------------------------
\* C1: FIFO under concurrency.  In every interleaving of the producer and
\* the consumer the k-th successful pop returns the value of the k-th
\* successful push: popped is always a prefix of pushed.
C1_Fifo ==
    /\ Len(popped) <= Len(pushed)
    /\ \A k \in 1..Len(popped) : popped[k] = pushed[k]

\* four values have gone through the buffer (the cursors have wrapped for
\* Capacity <= 4) while both threads are inside a call
C1_Witness ==
    /\ Len(popped) >= 4
    /\ Len(pushed) > Len(popped)
    /\ ProducerInSlot
    /\ ConsumerInSlot

\* C2: no loss, no duplication.  When both threads keep running, every
\* successfully pushed value is eventually returned by a successful pop,
\* and no value is returned by more than one pop.
C2_NoLoss ==
    /\ \A k \in 1..MaxPush :
          (Len(pushed) >= k) ~> (Len(popped) >= k /\ popped[k] = pushed[k])
    /\ [](\A i, j \in 1..Len(popped) : popped[i] = popped[j] => i = j)

\* every value pushed has been popped, through a buffer that was full on
\* the way (the producer's last try failed before it succeeded)
C2_Witness ==
    /\ Len(pushed) = MaxPush
    /\ popped = pushed
    /\ Capacity = 2

\* C3: Capacity.  From the empty buffer, as long as no pop has taken an
\* element, exactly Capacity - 1 pushes succeed: a push never fails before
\* that, and the next one returns false and leaves head, tail and the
\* Capacity - 1 stored elements as they were.
C3_Capacity ==
    (popped = <<>> /\ ~ConsumerInSlot) =>
        /\ Len(pushed) <= Capacity - 1
        /\ (ppc = "idle" /\ push_ret = "false") =>
              /\ Len(pushed) = Capacity - 1
              /\ head = Capacity - 1
              /\ tail = 0
              /\ storage = [i \in 0..(Capacity - 1) |->
                              IF i < Capacity - 1
                              THEN [st |-> "Occupied", val |-> i + 1]
                              ELSE FreeSlot]

\* the Capacity-th push has just failed, for Capacity 4 with try_push
C3_Witness ==
    /\ Capacity = 4
    /\ popped = <<>>
    /\ ~ConsumerInSlot
    /\ pOp = "try_push"
    /\ ppc = "idle"
    /\ push_ret = "false"
    /\ Len(pushed) = 3

\* the same for the smallest capacity, 2
C3_WitnessCap2 ==
    /\ Capacity = 2
    /\ popped = <<>>
    /\ ~ConsumerInSlot
    /\ ppc = "idle"
    /\ push_ret = "false"
    /\ Len(pushed) = 1

\* C4: sequential refinement of a FIFO queue bounded at Capacity - 1.  When
\* calls do not overlap, a push succeeds iff the queue holds fewer than
\* Capacity - 1 elements and then appends its value; a pop succeeds iff the
\* queue holds an element and then removes and returns the oldest one.
C4_Step ==
    /\ PushReturns =>
          /\ push_ret' = IF Len(AbsQueue) < Capacity - 1 THEN "true" ELSE "false"
          /\ popped' = popped
          /\ pushed' = IF push_ret' = "true" THEN Append(pushed, item) ELSE pushed
    /\ PopReturns =>
          /\ pop_ret' = IF Len(AbsQueue) >= 1 THEN "true" ELSE "false"
          /\ pushed' = pushed
          /\ popped' = IF pop_ret' = "true" THEN Append(popped, Head(AbsQueue))
                       ELSE popped
          /\ pop_ret' = "true" => delivered' = Head(AbsQueue)
          /\ (pop_ret' = "true" /\ cOp = "try_pop_ip") => out' = Head(AbsQueue)
    /\ (~PushReturns /\ ~PopReturns) => (pushed' = pushed /\ popped' = popped)

C4_Refinement == [][C4_Step]_vars

\* the end of the scenario for Capacity 4: 1,2,3 pushed, 4 refused, 1
\* popped, 4 pushed, 2,3,4 popped, and the next pop has failed
C4_Witness ==
    /\ Capacity = 4
    /\ pushed = <<1, 2, 3, 4>>
    /\ popped = <<1, 2, 3, 4>>
    /\ cpc = "idle"
    /\ pop_ret = "false"
    /\ ppc = "idle"

\* C5: is_empty() and is_full() are never both true of the same pair of
\* cursor values, for every legal Capacity.
C5_EmptyFullExclusive == ~(is_empty(tail, head) /\ is_full(head, tail))

\* the full buffer of capacity 2, after the cursors have wrapped
C5_Witness ==
    /\ Capacity = 2
    /\ is_full(head, tail)
    /\ ~is_empty(tail, head)
    /\ Len(popped) >= 2

\* the empty buffer after elements have gone through it
C5_WitnessEmpty ==
    /\ is_empty(tail, head)
    /\ ~is_full(head, tail)
    /\ Len(popped) >= 2

\* C6 as stated: at all times, the states in the middle of a push or of a
\* pop included, the slots holding a live element are exactly the circular
\* range [tail, head).
C6_LiveSetExact == LiveSlots = CircRange(tail, head)

\* C6 as the code has it: the slots holding a live element are the circular
\* range [tail, head), plus slot head from the completion of the producer's
\* construction to its store of head, minus slot tail from the consumer's
\* destruction to its store of tail.
C6_LiveSet ==
    LiveSlots =
        (CircRange(tail, head)
            \cup (IF ppc = "store_head" THEN {current_head} ELSE {}))
        \ (IF cpc = "store_tail" THEN {current_tail} ELSE {})

\* both threads are between their slot access and their cursor store
C6_Witness ==
    /\ ppc = "store_head"
    /\ cpc = "store_tail"
    /\ LiveSlots # CircRange(tail, head)
    /\ Len(popped) >= 1

\* C7: slot exclusivity.  The slot the producer is constructing into and
\* the slot the consumer is moving out of or destroying are never the same.
C7_SlotExclusive ==
    ~(ProducerInSlot /\ ConsumerInSlot /\ current_head = current_tail)

\* both threads are inside their slots, on different slots, after a wrap
C7_Witness ==
    /\ ppc = "constructing"
    /\ cpc = "destroy"
    /\ current_head # current_tail
    /\ Len(pushed) >= Capacity

\* C8: publication of pushes.  head advances only onto a slot whose
\* construction is complete, and whenever the consumer has seen a head
\* different from tail and is about to move out of slot tail, that slot
\* holds a fully constructed element.
C8_PushPublication ==
    /\ [](cpc = "move" => storage[current_tail].st = "Occupied")
    /\ [][head' # head =>
            /\ storage[head].st = "Occupied"
            /\ head' = Advance(head)]_vars

\* the consumer is about to move out of a slot while the producer is
\* writing the next element
C8_Witness ==
    /\ cpc = "move"
    /\ ppc = "constructing"
    /\ storage[current_tail].st = "Occupied"
    /\ storage[current_head].st = "Writing"

\* C9: publication of pops.  tail advances only past a slot whose element
\* has been moved out and destroyed, and every slot the producer is about
\* to construct into is free.
C9_PopPublication ==
    /\ [](ppc = "new" => storage[current_head].st = "Free")
    /\ [][tail' # tail =>
            /\ storage[tail].st = "Free"
            /\ tail' = Advance(tail)]_vars

\* the producer is about to reuse a slot that held an earlier element,
\* while the consumer is destroying another one
C9_Witness ==
    /\ ppc = "new"
    /\ Len(pushed) >= Capacity
    /\ cpc = "destroy"
    /\ storage[current_head].st = "Free"

\* C10: push failure has no side effects.  A try_push or emplace on a full
\* buffer returns false, and a call that returns false has written neither
\* head, tail nor any slot and has not consumed the caller's value.
C10_Step ==
    /\ (ppc = "load_tail" /\ ppc' # ppc /\ Advance(head) = tail) =>
          (ppc' = "idle" /\ push_ret' = "false")
    /\ (PushReturns /\ push_ret' = "false") =>
          /\ ppc = "load_tail"
          /\ UNCHANGED <<head, tail, storage, item, pushed>>
    /\ (ppc = "idle" /\ ppc' # "idle") =>
          UNCHANGED <<head, tail, storage, pushed>>

C10_PushFailure == [][C10_Step]_vars

\* an emplace has just failed on a buffer that is full after a wrap
C10_Witness ==
    /\ ppc = "idle"
    /\ pOp = "emplace"
    /\ push_ret = "false"
    /\ is_full(head, tail)
    /\ Len(popped) >= 1
    /\ item = Len(pushed) + 1

\* C11: pop failure has no side effects.  try_pop_ip, try_pop and
\* try_consume on an empty buffer return false (nullopt), and a call that
\* returns false has written neither head, tail, a slot nor the caller's
\* output variable, and has not invoked the processor.
C11_Step ==
    /\ (cpc = "load_head" /\ cpc' # cpc /\ tail = head) =>
          (cpc' = "idle" /\ pop_ret' = "false")
    /\ (PopReturns /\ pop_ret' = "false") =>
          /\ cpc = "load_head"
          /\ UNCHANGED <<head, tail, storage, out, popped>>
          /\ delivered' = NoVal
          /\ cb_count' = 0
    /\ (cpc = "idle" /\ cpc' # "idle") =>
          /\ UNCHANGED <<head, tail, storage, out, popped>>
          /\ cb_count' = 0

C11_PopFailure == [][C11_Step]_vars

\* a try_pop_ip has just failed on a buffer that is empty after elements
\* went through it, and out still holds the value of an earlier pop
C11_Witness ==
    /\ cpc = "idle"
    /\ cOp = "try_pop_ip"
    /\ pop_ret = "false"
    /\ is_empty(tail, head)
    /\ Len(popped) >= 2
    /\ out # NoVal

\* a try_consume has just failed without invoking the processor
C11_WitnessConsume ==
    /\ cpc = "idle"
    /\ cOp = "try_consume"
    /\ pop_ret = "false"
    /\ cb_count = 0
    /\ Len(popped) >= 1

----------------------------------------------------------------------------
\* the slots of a buffer whose tail is t and whose pending elements are q
StorageOf(t, q) ==
    [i \in 0..(Capacity - 1) |->
        IF \E k \in 1..Len(q) : (t + k - 1) % Capacity = i
        THEN [st |-> "Occupied",
              val |-> q[CHOOSE k \in 1..Len(q) : (t + k - 1) % Capacity = i]]
        ELSE FreeSlot]

\* C18: the three retrieval shapes are interchangeable.  Whichever of
\* try_pop_ip, try_pop and try_consume is called, the call succeeds iff
\* tail != head, delivers the element of slot tail to its destination (out,
\* the optional, the processor's argument) and leaves the same head, tail
\* and slots: slot tail free, tail advanced by one, all else unchanged.
C18_Step ==
    PopReturns =>
        /\ pop_ret' = IF tail # head THEN "true" ELSE "false"
        /\ head' = head
        /\ pop_ret' = "false" =>
              /\ tail' = tail
              /\ storage' = StorageOf(tail, AbsQueue)
        /\ pop_ret' = "true" =>
              /\ tail' = Advance(tail)
              /\ delivered' = Head(AbsQueue)
              /\ storage' = StorageOf(tail', Tail(AbsQueue))
              /\ cOp = "try_pop_ip" => out' = Head(AbsQueue)
              /\ cOp = "try_consume" => cb_count' = 1

C18_PopShapes == [][C18_Step]_vars

\* a try_consume has returned an element after a try_pop_ip had returned
\* one, with elements left in the buffer
C18_Witness ==
    /\ cpc = "idle"
    /\ cOp = "try_consume"
    /\ pop_ret = "true"
    /\ cb_count = 1
    /\ out # NoVal
    /\ delivered # out
    /\ tail # head

\* C19: emplace is equivalent to try_push.  Whichever of the two is called,
\* the call returns false iff (head + 1) mod Capacity = tail, and then
\* leaves head, tail and the slots as they were; otherwise it stores the
\* value in slot head and advances head by one.
C19_Step ==
    PushReturns =>
        /\ push_ret' = IF Advance(head) = tail THEN "false" ELSE "true"
        /\ tail' = tail
        /\ push_ret' = "false" =>
              /\ head' = head
              /\ storage' = StorageOf(tail, AbsQueue)
        /\ push_ret' = "true" =>
              /\ head' = Advance(head)
              /\ storage' = StorageOf(tail, Append(AbsQueue, item))

C19_EmplaceAsPush == [][C19_Step]_vars

\* an emplace has stored a value behind one stored by an earlier call
C19_Witness ==
    /\ ppc = "idle"
    /\ pOp = "emplace"
    /\ push_ret = "true"
    /\ Len(AbsQueue) >= 2
    /\ storage[(head + Capacity - 1) % Capacity] =
          [st |-> "Occupied", val |-> Len(pushed)]

\* an emplace has failed on a full buffer
C19_WitnessFull ==
    /\ ppc = "idle"
    /\ pOp = "emplace"
    /\ push_ret = "false"
    /\ Len(AbsQueue) = Capacity - 1

\* C20: wraparound.  For every cursor value i in 0..Capacity-1 the mask
\* step (i + 1) & (Capacity - 1) equals (i + 1) mod Capacity; head and tail
\* stay in 0..Capacity-1, and the values popped are the values pushed, in
\* order, however often the cursors have wrapped.
C20_Wraparound ==
    /\ \A i \in 0..(Capacity - 1) : Advance(i) = (i + 1) % Capacity
    /\ head \in 0..(Capacity - 1)
    /\ tail \in 0..(Capacity - 1)
    /\ head = Len(pushed) % Capacity
    /\ tail = Len(popped) % Capacity
    /\ popped = SubSeq(pushed, 1, Len(popped))

\* 2 x Capacity push/pop cycles have been completed and the cursors have
\* wrapped onto a smaller index
C20_Witness ==
    /\ Len(popped) >= 2 * Capacity
    /\ Len(pushed) > Len(popped)
    /\ head < tail

----------------------------------------------------------------------------
\* position of a statement inside the producer's call
ProducerRank(pc) ==
    CASE pc = "idle" -> 0
      [] pc = "load_tail" -> 1
      [] pc = "full_load_tail" -> 1
      [] pc = "new" -> 2
      [] pc = "constructing" -> 3
      [] pc = "store_head" -> 4

\* position of a statement inside the consumer's call
ConsumerRank(pc) ==
    CASE pc = "idle" -> 0
      [] pc = "load_head" -> 1
      [] pc = "empty_load_head" -> 1
      [] pc = "move" -> 2
      [] pc = "destroy" -> 3
      [] pc = "store_tail" -> 4

\* C16: wait-freedom.  A call of try_push, emplace, try_pop, try_pop_ip,
\* try_consume, is_empty or is_full that is in progress can always take its
\* next step, whatever the other thread is doing, and every step either
\* returns or moves to a later statement of the call: no loop, retry or
\* wait, so the call returns within five steps.
C16_WaitFree ==
    /\ [](ppc # "idle" => ENABLED ProducerQ)
    /\ [](cpc # "idle" => ENABLED ConsumerQ)
    /\ [][ppc' # ppc =>
            (ppc' = "idle" \/ ProducerRank(ppc') > ProducerRank(ppc))]_vars
    /\ [][cpc' # cpc =>
            (cpc' = "idle" \/ ConsumerRank(cpc') > ConsumerRank(cpc))]_vars

\* the producer is inside a push on a full buffer and the consumer inside a
\* pop, each one step away from the other's cursor
C16_Witness ==
    /\ ppc = "load_tail"
    /\ cpc = "store_tail"
    /\ is_full(head, tail)

\* both threads are inside a state query
C16_WitnessQuery ==
    /\ ppc = "full_load_tail"
    /\ cpc = "empty_load_head"
    /\ Len(pushed) >= 1

\* C17: cursor ownership.  head is written only by a step of try_push or
\* emplace, tail only by a step of try_pop, try_pop_ip or try_consume; no
\* step of the producer writes tail, no step of the consumer writes head,
\* and is_empty and is_full write neither cursor nor any slot.
C17_Step ==
    /\ head' # head =>
          (ppc' # ppc /\ pOp \in {"try_push", "emplace"} /\ cpc' = cpc)
    /\ tail' # tail =>
          (cpc' # cpc /\ cOp \in {"try_pop", "try_pop_ip", "try_consume"}
              /\ ppc' = ppc)
    /\ ppc' # ppc => tail' = tail
    /\ cpc' # cpc => head' = head
    /\ (ppc' # ppc /\ pOp' = "is_full") => UNCHANGED <<head, tail, storage>>
    /\ (cpc' # cpc /\ cOp' = "is_empty") => UNCHANGED <<head, tail, storage>>

C17_CursorOwnership == [][C17_Step]_vars

\* is_full has returned true to the producer and is_empty false to the
\* consumer, after elements have gone through the buffer
C17_Witness ==
    /\ ppc = "idle"
    /\ pOp = "is_full"
    /\ push_ret = "true"
    /\ cpc = "idle"
    /\ cOp = "is_empty"
    /\ pop_ret = "false"
    /\ Len(popped) >= 1

----------------------------------------------------------------------------
\* the values object B holds, oldest first, read from its slots [tail, head)
Pending(B) ==
    [k \in 1..((B.head + Capacity - B.tail) % Capacity) |->
        B.slots[(B.tail + k - 1) % Capacity].val]

\* C12 for one step: a destructor call on a buffer holding N elements
C12_Step ==
    \A b \in BufIds :
        (ub = "none" /\ bufs[b].life = "alive" /\ bufs'[b].life = "dead") =>
            LET B == bufs[b]
                live == CircRange(B.tail, B.head)
                held == {B.slots[i].val : i \in live}
            IN  /\ ub' = "none"
                /\ Cardinality(held) = Cardinality(live)
                /\ l_ret'.val = Cardinality(live)
                /\ \A v \in 1..MaxLifePush :
                      dtors'[v] = dtors[v] + (IF v \in held THEN 1 ELSE 0)
                /\ \A i \in live : bufs'[b].slots[i] = FreeSlot
                /\ \A i \in (0..(Capacity - 1)) \ live :
                      bufs'[b].slots[i] = B.slots[i]

\* C12: resource cleanup.  Destroying a buffer that holds N unread
\* elements, wherever its cursors are, destroys exactly those N elements,
\* leaves every slot outside [tail, head) as it was, and no element is ever
\* destroyed twice.
C12_Cleanup ==
    /\ [](ub = "none" => \A v \in 1..MaxLifePush : dtors[v] <= 1)
    /\ [][C12_Step]_vars

\* a buffer of Capacity 4 was destroyed while it held 3 elements in slots
\* 2, 3 and 0, after earlier elements had been popped and destroyed
C12_Witness ==
    /\ ub = "none"
    /\ Capacity = 4
    /\ l_ret.op = "destroy"
    /\ l_ret.val = 3
    /\ bufs[l_ret.buf].life = "dead"
    /\ bufs[l_ret.buf].head = 1
    /\ bufs[l_ret.buf].tail = 1
    /\ \E v \in 1..MaxLifePush : dtors[v] = 1

\* an empty buffer was destroyed, and nothing was destroyed with it
C12_WitnessEmpty ==
    /\ ub = "none"
    /\ l_ret.op = "destroy"
    /\ l_ret.val = 0
    /\ l_next > 1
    /\ \E v \in 1..MaxLifePush : v < l_next /\ dtors[v] = 0

\* C13 for one step: a move construction or move assignment of dst from src
C13_Step ==
    \A dst, src \in BufIds :
        (/\ ub = "none"
         /\ dst # src
         /\ bufs[src].life = "alive"
         /\ l_ret'.op \in {"move_construct", "move_assign"}
         /\ l_ret'.buf = dst
         /\ l_ret'.src = src
         /\ vars' # vars) =>
            LET vs == Pending(bufs[src])
                popsB == DrainPop(bufs'[dst])
            IN  /\ ub' = "none"
                /\ bufs'[dst].life = "alive"
                /\ Pending(bufs'[dst]) = vs
                /\ popsB.vals = vs
                /\ ~popsB.ub
                /\ BufTryPop(popsB.buf).ret = "false"
                /\ bufs'[src].head = 0
                /\ bufs'[src].tail = 0
                /\ BufTryPop(bufs'[src]).ret = "false"

\* C13: a move transfers the pending elements.  Move constructing or move
\* assigning B from A leaves B holding what A held, in the same order, so
\* that successive pops of B return those values and then fail, and leaves
\* A empty with head = tail = 0.
C13_MoveTransfers == [][C13_Step]_vars

\* a buffer was move assigned from a source holding two elements across
\* the wrap, while the destination held an element of its own
C13_Witness ==
    /\ ub = "none"
    /\ l_ret.op = "move_assign"
    /\ l_ret.src # l_ret.buf
    /\ bufs[l_ret.buf].head < bufs[l_ret.buf].tail
    /\ Len(Pending(bufs[l_ret.buf])) >= 2
    /\ \E v \in 1..MaxLifePush :
          /\ dtors[v] = 1
          /\ \A k \in 1..Len(Pending(bufs[l_ret.buf])) :
                v > Pending(bufs[l_ret.buf])[k]

\* a buffer was move constructed from a source holding elements
C13_WitnessConstruct ==
    /\ ub = "none"
    /\ l_ret.op = "move_construct"
    /\ Len(Pending(bufs[l_ret.buf])) >= 2
    /\ bufs[l_ret.src].life = "alive"

\* C14 for one step: a push to a buffer that has been moved from
C14_Step ==
    \A b \in BufIds :
        (/\ ub = "none"
         /\ bufs[b].life = "alive"
         /\ ~bufs[b].owned
         /\ l_ret'.op = "try_push"
         /\ l_ret'.buf = b
         /\ l_next' # l_next) =>
            /\ ub' = "none"
            /\ l_ret'.ret = "true"
            /\ bufs'[b].owned
            /\ BufTryPop(bufs'[b]).ret = "true"
            /\ BufTryPop(bufs'[b]).val = l_ret'.val
            /\ ~BufTryPop(bufs'[b]).ub

\* C14: the moved-from source is a valid fresh buffer.  A push to a buffer
\* that has been moved from succeeds, the value is stored in storage the
\* buffer owns, and a following try_pop on it returns that value.
C14_MovedFromUsable == [][C14_Step]_vars

----------------------------------------------------------------------------
\* C21: initial state.  As long as no push has been published, the buffer
\* is as the constructor left it: head = tail = 0, no slot is live unless
\* the producer is constructing the first element, is_empty() is true,
\* is_full() is false, and try_pop, try_pop_ip and try_consume fail.
C21_InitialState ==
    Len(pushed) = 0 =>
        /\ head = 0
        /\ tail = 0
        /\ popped = <<>>
        /\ LiveSlots \subseteq (IF ProducerInSlot THEN {0} ELSE {})
        /\ \A i \in 1..(Capacity - 1) : storage[i] = FreeSlot
        /\ is_empty(tail, head)
        /\ ~is_full(head, tail)
        /\ (cpc = "idle" /\ cOp \in {"try_pop", "try_pop_ip", "try_consume"})
              => (pop_ret = "false" /\ out = NoVal /\ cb_count = 0)
        /\ (cpc = "idle" /\ cOp = "is_empty") => pop_ret = "true"
        /\ (ppc = "idle" /\ pOp = "is_full") => push_ret = "false"

\* on the new buffer is_full() has returned false and try_consume has failed
C21_Witness ==
    /\ Len(pushed) = 0
    /\ pOp = "is_full"
    /\ ppc = "idle"
    /\ push_ret = "false"
    /\ cOp = "try_consume"
    /\ cpc = "idle"
    /\ pop_ret = "false"
    /\ storage = [i \in 0..(Capacity - 1) |-> FreeSlot]

\* on the new buffer is_empty() has returned true
C21_WitnessEmpty ==
    /\ Len(pushed) = 0
    /\ pOp = "none"
    /\ cOp = "is_empty"
    /\ cpc = "idle"
    /\ pop_ret = "true"

\* C22 for one step: what a change of slot i can be
C22_Step ==
    \A i \in 0..(Capacity - 1) :
        storage'[i] # storage[i] =>
            LET a == storage[i].st
                b == storage'[i].st
            IN  \/ /\ a = "Free"
                   /\ b = "Writing"
                   /\ ppc = "new"
                   /\ current_head = i
                   /\ UNCHANGED consumerVars
                \/ /\ a = "Writing"
                   /\ b = "Occupied"
                   /\ ppc = "constructing"
                   /\ current_head = i
                   /\ UNCHANGED consumerVars
                \/ /\ a = "Occupied"
                   /\ b = "Reading"
                   /\ cpc = "move"
                   /\ current_tail = i
                   /\ UNCHANGED producerVars
                \/ /\ a = "Reading"
                   /\ b = "Free"
                   /\ cpc = "destroy"
                   /\ current_tail = i
                   /\ UNCHANGED producerVars

\* C22: per-slot state machine.  In every interleaving of the producer and
\* the consumer a slot only moves Free -> Writing -> Occupied -> Reading ->
\* Free; Writing is entered by a producer step from Free, Reading by a
\* consumer step from Occupied, and a slot changes in no other way.
C22_SlotCycle == [][C22_Step]_vars

\* slot 0 is being written for the second time or later while the consumer
\* is reading another slot
C22_Witness ==
    /\ storage[0].st = "Writing"
    /\ Len(pushed) >= Capacity
    /\ \E j \in 1..(Capacity - 1) : storage[j].st = "Reading"

\* C25 for one step: a store of head or of tail
C25_Step ==
    /\ head' # head =>
          /\ head' = Advance(head)
          /\ head' # tail
          /\ tail' = tail
    /\ tail' # tail =>
          /\ tail' = Advance(tail)
          /\ tail # head
          /\ head' = head

\* C25: occupancy bound.  The number of published pushes minus the number
\* of retired pops equals (head - tail) mod Capacity and lies in
\* 0..Capacity-1; a push never advances head onto tail and a pop never
\* advances tail past head, whatever stale value of the other cursor the
\* thread has acted on.
C25_Occupancy ==
    /\ [](/\ Len(pushed) - Len(popped) = (head + Capacity - tail) % Capacity
          /\ Len(pushed) - Len(popped) \in 0..(Capacity - 1))
    /\ [][C25_Step]_vars

\* both threads are inside a slot after the cursors have wrapped, the
\* producer having acted on a tail that is no longer the latest
C25_Witness ==
    /\ ProducerInSlot
    /\ ConsumerInSlot
    /\ tail # TailSeen
    /\ Len(popped) >= Capacity

\* both threads are inside a slot, the consumer having acted on a head that
\* is no longer the latest
C25_WitnessStaleHead ==
    /\ ProducerInSlot
    /\ ConsumerInSlot
    /\ head # HeadSeen
    /\ Len(popped) >= 1

\* C26 for one step of a try_consume call
C26_Step ==
    /\ (cOp = "try_consume" /\ cpc = "move" /\ cpc' # cpc) =>
          /\ cb_count = 0
          /\ cb_count' = 1
          /\ current_tail = tail
          /\ tail' = tail
          /\ storage[tail].st = "Occupied"
          /\ storage'[tail].st = "Reading"
          /\ delivered' = storage[tail].val
          /\ delivered' = pushed[Len(popped) + 1]
          /\ ~(ProducerInSlot /\ current_head = tail)
    /\ (cOp = "try_consume" /\ cpc \in {"load_head", "destroy", "store_tail"})
          => cb_count' = cb_count
    /\ (cOp = "try_consume" /\ PopReturns) =>
          cb_count' = (IF pop_ret' = "true" THEN 1 ELSE 0)

\* C26: the try_consume callback protocol.  A successful try_consume calls
\* the processor exactly once, with the element of slot tail, while that
\* element is still alive and tail has not been advanced, so that the
\* producer is not in that slot; a try_consume that fails never calls it.
C26_ConsumeProtocol ==
    /\ [][C26_Step]_vars
    /\ []((cOp = "try_consume" /\ cpc \in {"move", "destroy", "store_tail"})
            => /\ tail = current_tail
               /\ ProducerInSlot => current_head # current_tail)

\* the processor has been called with the element of a slot that has been
\* used before, while the producer is constructing into another slot of a
\* buffer that it sees as nearly full
C26_Witness ==
    /\ cOp = "try_consume"
    /\ cpc = "destroy"
    /\ cb_count = 1
    /\ delivered = pushed[Len(popped) + 1]
    /\ Len(popped) >= Capacity
    /\ ppc = "constructing"

\* a try_consume has failed on an empty buffer without calling the processor
C26_WitnessFail ==
    /\ cOp = "try_consume"
    /\ cpc = "idle"
    /\ pop_ret = "false"
    /\ cb_count = 0
    /\ Len(popped) >= 1

\* C27: progress of the retry loops.  When both threads keep running and
\* every store becomes visible, a push that was refused is followed by one
\* that succeeds, all MaxPush values are pushed and popped, and from then
\* on the buffer is empty: head = tail and is_empty() holds.
C27_Progress ==
    /\ (ppc = "idle" /\ push_ret = "false") ~> (push_ret = "true")
    /\ <>[](/\ Len(pushed) = MaxPush
            /\ popped = pushed
            /\ head = tail
            /\ is_empty(tail, head))

\* both loops are done for Capacity 4: every value has been received, the
\* cursors have wrapped and met, and a further try_pop has failed
C27_Witness ==
    /\ Capacity = 4
    /\ Len(popped) = MaxPush
    /\ head = tail
    /\ head = MaxPush % Capacity
    /\ ppc = "idle"
    /\ cpc = "idle"
    /\ cOp = "try_pop"
    /\ pop_ret = "false"

\* the producer's call of a push function returns in this step
PushCallReturns == PushReturns /\ pOp \in {"try_push", "emplace"}

\* the producer's is_full() returns true in this step
IsFullTrue == PushReturns /\ pOp = "is_full" /\ push_ret' = "true"

\* C28 as stated: a push that follows an is_full() that returned false
\* succeeds, and when is_full() returns true the buffer holds Capacity - 1
\* elements at the instant of the tail load.
C28_FullAtLoad ==
    [][/\ PushCallReturns => push_ret' = "true"
       /\ IsFullTrue => Len(AbsQueue) = Capacity - 1]_vars

\* C28: the producer's is_full.  A push that follows an is_full() that
\* returned false succeeds whatever the consumer does meanwhile; when
\* is_full() returns true, the elements the buffer holds at the tail load
\* and those whose tail store the producer does not see yet are Capacity - 1
\* together.
C28_ProducerIsFull ==
    [][/\ PushCallReturns => push_ret' = "true"
       /\ IsFullTrue =>
             /\ Len(AbsQueue) + tail_lag = Capacity - 1
             /\ (head + Capacity - TailSeen) % Capacity = Capacity - 1]_vars

\* is_full() has returned true to the producer while the buffer, one of its
\* elements already retired, is no longer full
C28_Witness ==
    /\ pOp = "is_full"
    /\ ppc = "idle"
    /\ push_ret = "true"
    /\ Len(AbsQueue) < Capacity - 1
    /\ cpc = "idle"

\* a push after is_full() = false has succeeded and filled the buffer,
\* after the cursors have wrapped
C28_WitnessPush ==
    /\ pOp = "emplace"
    /\ ppc = "idle"
    /\ push_ret = "true"
    /\ Len(AbsQueue) = Capacity - 1
    /\ Len(popped) >= Capacity

\* the consumer's call of a pop function returns in this step
PopCallReturns ==
    PopReturns /\ cOp \in {"try_pop_ip", "try_pop", "try_consume"}

\* the consumer's is_empty() returns true in this step
IsEmptyTrue == PopReturns /\ cOp = "is_empty" /\ pop_ret' = "true"

\* C29 as stated: a pop that follows an is_empty() that returned false
\* succeeds, and when is_empty() returns true the buffer holds no element
\* at the instant of the head load.
C29_EmptyAtLoad ==
    [][/\ PopCallReturns => pop_ret' = "true"
       /\ IsEmptyTrue => Len(AbsQueue) = 0]_vars

\* C29: the consumer's is_empty.  A pop that follows an is_empty() that
\* returned false succeeds whatever the producer does meanwhile; when
\* is_empty() returns true, the buffer holds at the head load only elements
\* whose head store the consumer does not see yet.
C29_ConsumerIsEmpty ==
    [][/\ PopCallReturns => pop_ret' = "true"
       /\ IsEmptyTrue =>
             /\ Len(AbsQueue) = head_lag
             /\ HeadSeen = tail]_vars

\* is_empty() has returned true to the consumer while the buffer holds an
\* element that has been published, the cursors having wrapped
C29_Witness ==
    /\ cOp = "is_empty"
    /\ cpc = "idle"
    /\ pop_ret = "true"
    /\ Len(AbsQueue) >= 1
    /\ ppc = "idle"
    /\ Len(popped) >= Capacity

\* a try_consume after is_empty() = false has succeeded and emptied the
\* buffer
C29_WitnessPop ==
    /\ cOp = "try_consume"
    /\ cpc = "idle"
    /\ pop_ret = "true"
    /\ Len(AbsQueue) = 0
    /\ Len(popped) >= 2

\* the steps at which a call takes effect on the queue, or finds that it
\* cannot: the successful calls at their stores
C24_Effects ==
    /\ head' # head =>
          /\ PushCallReturns
          /\ push_ret' = "true"
          /\ Len(AbsQueue) < Capacity - 1
          /\ AbsQueue' = Append(AbsQueue, item)
    /\ tail' # tail =>
          /\ PopCallReturns
          /\ pop_ret' = "true"
          /\ Len(AbsQueue) >= 1
          /\ AbsQueue' = Tail(AbsQueue)
          /\ delivered = Head(AbsQueue)
    /\ (PushCallReturns /\ push_ret' = "true") => head' # head
    /\ (PopCallReturns /\ pop_ret' = "true") => tail' # tail
    /\ (head' = head /\ tail' = tail) => AbsQueue' = AbsQueue

\* a push call returns false in this step, at its load of tail
PushFails == PushCallReturns /\ push_ret' = "false"

\* a pop call returns false in this step, at its load of head
PopFails == PopCallReturns /\ pop_ret' = "false"

\* C24 as stated: the queue is full at the tail load of a failed push and
\* empty at the head load of a failed pop.
C24_Linearizable ==
    [][/\ C24_Effects
       /\ PushFails => Len(AbsQueue) = Capacity - 1
       /\ PopFails => Len(AbsQueue) = 0]_vars

\* C24: the buffer as an atomic FIFO queue bounded at Capacity - 1.  A
\* successful push takes effect at its store of head and a successful pop
\* at its store of tail, in FIFO order and within the bound, and nothing
\* else changes the queue; a failed push finds the queue full, and a failed
\* pop finds it empty, as far as the stores of the other thread are visible
\* to the caller at its load.
C24_QueueRefinement ==
    [][/\ C24_Effects
       /\ PushFails =>
             /\ Len(AbsQueue) + tail_lag = Capacity - 1
             /\ ppc = "load_tail"
       /\ PopFails =>
             /\ Len(AbsQueue) = head_lag
             /\ cpc = "load_head"]_vars

\* a try_push has failed although a pop had already taken an element out
\* of the full buffer, and the queue has wrapped
C24_Witness ==
    /\ pOp = "try_push"
    /\ ppc = "idle"
    /\ push_ret = "false"
    /\ tail_lag >= 1
    /\ Len(AbsQueue) < Capacity - 1
    /\ cpc = "idle"
    /\ pop_ret = "true"
    /\ Len(popped) >= 2

\* a try_pop has failed although a push had already been published
C24_WitnessPop ==
    /\ cOp = "try_pop"
    /\ cpc = "idle"
    /\ pop_ret = "false"
    /\ head_lag >= 1
    /\ ppc = "idle"
    /\ push_ret = "true"

----------------------------------------------------------------------------
\* the third thread's is_empty() call returns true in this step
ObserverIsEmptyTrue ==
    opc = "empty_load_head" /\ opc' = "idle" /\ o_ret' = "true"

\* the third thread's is_full() call returns true in this step
ObserverIsFullTrue ==
    opc = "full_load_tail" /\ opc' = "idle" /\ o_ret' = "true"

\* C30 for one step.  The buffer holds Len(pushed) - Len(popped) elements,
\* and both lengths only grow.  If it held zero elements at an instant
\* between the two loads, every push published before the first load was
\* retired by the second; if it held Capacity - 1 elements at such an
\* instant, at least Capacity - 1 pushes were published by the second load
\* beyond the pops retired before the first.
C30_Step ==
    /\ ObserverIsEmptyTrue => o_pushed <= Len(popped)
    /\ ObserverIsFullTrue => Len(pushed) - o_popped >= Capacity - 1

\* C30: state queries are stale at worst, never fabricated.  An is_empty()
\* call by a third thread that returns true implies the buffer held zero
\* elements at some instant between the call's two cursor loads, and an
\* is_full() call that returns true implies it held Capacity - 1 elements
\* at some instant between its two cursor loads.
C30_NeverFabricated == [][C30_Step]_vars

\* C30, is_empty() alone
C30_EmptyNeverFabricated ==
    [][ObserverIsEmptyTrue => o_pushed <= Len(popped)]_vars

\* C30, is_full() alone
C30_FullNeverFabricated ==
    [][ObserverIsFullTrue => Len(pushed) - o_popped >= Capacity - 1]_vars

----------------------------------------------------------------------------
\* the std::memory_order argument of each cursor access, function by function
MemoryOrder(fn, kind, cursor) ==
    CASE fn \in {"try_push", "emplace"} /\ kind = "load" /\ cursor = "head"
            -> "relaxed"
      [] fn \in {"try_push", "emplace"} /\ kind = "load" /\ cursor = "tail"
            -> "acquire"
      [] fn \in {"try_push", "emplace"} /\ kind = "store" /\ cursor = "head"
            -> "release"
      [] fn \in {"try_pop_ip", "try_pop", "try_consume"}
            /\ kind = "load" /\ cursor = "tail"
            -> "relaxed"
      [] fn \in {"try_pop_ip", "try_pop", "try_consume"}
            /\ kind = "load" /\ cursor = "head"
            -> "acquire"
      [] fn \in {"try_pop_ip", "try_pop", "try_consume"}
            /\ kind = "store" /\ cursor = "tail"
            -> "release"
      [] fn = "is_full" /\ kind = "load" /\ cursor = "head" -> "relaxed"
      [] fn = "is_full" /\ kind = "load" /\ cursor = "tail" -> "acquire"
      [] fn = "is_empty" /\ kind = "load" /\ cursor = "tail" -> "relaxed"
      [] fn = "is_empty" /\ kind = "load" /\ cursor = "head" -> "acquire"
      [] fn \in {"move_construct", "move_assign"} -> "relaxed"
      [] OTHER -> "none"

\* the thread that stores to each cursor
CursorWriter(cursor) == IF cursor = "head" THEN "producer" ELSE "consumer"

\* a step that accesses no cursor
NoAccess == [fn |-> "none", kind |-> "none", cursor |-> "none"]

\* the cursor access the producer thread makes in this step
ProducerAccess ==
    IF ppc = "idle" /\ ppc' # "idle"
    THEN [fn |-> pOp', kind |-> "load",
          cursor |-> IF pOp' = "is_empty" THEN "tail" ELSE "head"]
    ELSE IF ppc \in {"load_tail", "full_load_tail"} /\ ppc' # ppc
    THEN [fn |-> pOp, kind |-> "load", cursor |-> "tail"]
    ELSE IF ppc = "empty_load_head" /\ ppc' # ppc
    THEN [fn |-> pOp, kind |-> "load", cursor |-> "head"]
    ELSE IF ppc = "store_head" /\ ppc' # ppc
    THEN [fn |-> pOp, kind |-> "store", cursor |-> "head"]
    ELSE NoAccess

\* the cursor access the consumer thread makes in this step
ConsumerAccess ==
    IF cpc = "idle" /\ cpc' # "idle"
    THEN [fn |-> cOp', kind |-> "load",
          cursor |-> IF cOp' = "is_full" THEN "head" ELSE "tail"]
    ELSE IF cpc \in {"load_head", "empty_load_head"} /\ cpc' # cpc
    THEN [fn |-> cOp, kind |-> "load", cursor |-> "head"]
    ELSE IF cpc = "full_load_tail" /\ cpc' # cpc
    THEN [fn |-> cOp, kind |-> "load", cursor |-> "tail"]
    ELSE IF cpc = "store_tail" /\ cpc' # cpc
    THEN [fn |-> cOp, kind |-> "store", cursor |-> "tail"]
    ELSE NoAccess

\* the memory-order discipline for one access a made by thread th
Disciplined(th, a) ==
    LET mo == MemoryOrder(a.fn, a.kind, a.cursor)
    IN  /\ mo # "none"
        /\ (a.kind = "load" /\ mo = "relaxed") => CursorWriter(a.cursor) = th
        /\ (a.kind = "load" /\ CursorWriter(a.cursor) # th) => mo = "acquire"
        /\ a.kind = "store" => mo = "release"

\* C23 for one step of the producer or of the consumer
C23_Step ==
    /\ ProducerAccess # NoAccess => Disciplined("producer", ProducerAccess)
    /\ ConsumerAccess # NoAccess => Disciplined("consumer", ConsumerAccess)

\* C23: memory-order discipline.  In every operation, is_empty and is_full
\* included whichever thread calls them, a relaxed load is only made by the
\* thread that writes the cursor loaded, every load of the other side's
\* cursor is an acquire load and every cursor store is a release store.
C23_Discipline == [][C23_Step]_vars

\* C23 for the moves: every cursor store of a move construction or a move
\* assignment is a release store
C23_MoveDiscipline ==
    [][(l_ret'.op \in {"move_construct", "move_assign"} /\ bufs' # bufs) =>
          \A cursor \in {"head", "tail"} :
              MemoryOrder(l_ret'.op, "store", cursor) = "release"]_vars

----------------------------------------------------------------------------
\* the values held in the slots of the buffer objects that exist
HeldValues(bs) ==
    {bs[b].slots[i].val : b \in BufIds, i \in 0..(Capacity - 1)} \ {NoVal}

\* C31 for one step: a move assignment of dst from another object src
C31_Step ==
    \A dst, src \in BufIds :
        (/\ ub = "none"
         /\ dst # src
         /\ bufs[dst].life = "alive"
         /\ bufs[src].life = "alive"
         /\ l_ret'.op = "move_assign"
         /\ l_ret'.buf = dst
         /\ l_ret'.src = src
         /\ vars' # vars) =>
            LET old == Pending(bufs[dst])
                olds == {old[k] : k \in 1..Len(old)}
                drained == DrainPop(bufs[dst])
            IN  /\ ub' = "none"
                /\ Cardinality(olds) = Len(old)
                /\ l_ret'.val = Len(old)
                /\ drained.vals = old
                /\ drained.buf.head = drained.buf.tail
                /\ drained.buf.slots = AllFree
                /\ \A v \in 1..MaxLifePush :
                      dtors'[v] = dtors[v] + (IF v \in olds THEN 1 ELSE 0)
                /\ bufs'[dst].head = bufs[src].head
                /\ bufs'[dst].tail = bufs[src].tail
                /\ bufs'[dst].slots = bufs[src].slots
                /\ bufs'[dst].owned = bufs[src].owned
                /\ Pending(bufs'[dst]) = Pending(bufs[src])
                /\ olds \cap HeldValues(bufs') = {}

\* C31: move assignment onto a non-empty destination.  Move assigning into
\* a destination that holds m pending elements pops and destroys each of
\* those m elements exactly once and no other element, and the destination
\* then has the source's head, tail and storage; none of the destination's
\* previous elements is left in a slot and none is destroyed twice.
C31_MoveAssignDrains ==
    /\ [](ub = "none" => \A v \in 1..MaxLifePush : dtors[v] <= 1)
    /\ [][C31_Step]_vars

\* a destination holding two elements was move assigned from a source
\* that holds elements of its own: the two were destroyed, the source's
\* elements were not
C31_Witness ==
    /\ ub = "none"
    /\ l_ret.op = "move_assign"
    /\ l_ret.src # l_ret.buf
    /\ l_ret.val = 2
    /\ Len(Pending(bufs[l_ret.buf])) >= 1
    /\ \A k \in 1..Len(Pending(bufs[l_ret.buf])) :
          dtors[Pending(bufs[l_ret.buf])[k]] = 0
    /\ Cardinality({v \in 1..MaxLifePush : dtors[v] = 1}) = 2

\* a destination whose three elements lay across the wrap was move
\* assigned
C31_WitnessWrapped ==
    /\ ub = "none"
    /\ Capacity = 4
    /\ l_ret.op = "move_assign"
    /\ l_ret.src # l_ret.buf
    /\ l_ret.val = 3
    /\ Cardinality({v \in 1..MaxLifePush : dtors[v] = 1}) = 4

----------------------------------------------------------------------------
\* every buffer object that was constructed has been destroyed
LifetimeOver == \A b \in BufIds : bufs[b].life # "alive"

\* the values in the slots of buffer object B
SlotValues(B) == {B.slots[i].val : i \in 0..(Capacity - 1)} \ {NoVal}

\* C32 at the end of the lifetime: every value a push constructed in a slot
\* has been destroyed once
C32_AtEnd ==
    LifetimeOver => \A v \in 1..(l_next - 1) : dtors[v] = 1

\* C32 for one step: an element is destroyed only by a call on the object
\* whose slots hold it, a move construction destroys nothing and hands the
\* source's elements to the destination, and the destructor of an object
\* whose _storage is null pops nothing
C32_Step ==
    /\ \A v \in 1..MaxLifePush :
          dtors'[v] # dtors[v] =>
             /\ dtors'[v] = dtors[v] + 1
             /\ l_ret'.op \in {"try_pop", "move_assign", "destroy"}
             /\ v \in SlotValues(bufs[l_ret'.buf])
             /\ v \notin HeldValues(bufs')
    /\ \A dst, src \in BufIds :
          (/\ l_ret'.op \in {"move_construct", "move_assign"}
           /\ l_ret'.buf = dst
           /\ l_ret'.src = src
           /\ dst # src
           /\ bufs' # bufs) =>
              /\ \A v \in SlotValues(bufs[src]) :
                    /\ dtors'[v] = dtors[v]
                    /\ v \in SlotValues(bufs'[dst])
              /\ SlotValues(bufs'[src]) = {}
    /\ \A b \in BufIds :
          (/\ bufs[b].life = "alive"
           /\ ~bufs[b].owned
           /\ bufs'[b].life = "dead") =>
              /\ ~Destructor(bufs[b]).ub
              /\ Destructor(bufs[b]).vals = <<>>
              /\ dtors' = dtors
              /\ ub' = ub

\* C32: exactly-once destruction over the whole lifetime.  Across any
\* sequence of pushes, pops, move constructions, move assignments and
\* destructions made by one thread, every element constructed in a slot is
\* destroyed exactly once; the elements a move transfers are destroyed only
\* through the destination, and destroying a moved-from buffer destroys no
\* element and accesses no storage.
C32_ExactlyOnce ==
    /\ [](\A v \in 1..MaxLifePush : dtors[v] <= 1)
    /\ []C32_AtEnd
    /\ [][C32_Step]_vars

\* C32 on the executions in which no call went through a null _storage
C32_DefinedRuns ==
    /\ [](ub = "none" => \A v \in 1..MaxLifePush : dtors[v] <= 1)
    /\ [](ub = "none" => C32_AtEnd)
    /\ [][(ub = "none" /\ ub' = "none") => C32_Step]_vars

\* both buffer objects were destroyed after a move and pops, and no call
\* went through a null _storage
C32_DefinedEnd ==
    /\ ub = "none"
    /\ \A b \in BufIds : bufs[b].life = "dead"
    /\ l_next >= 4
    /\ l_ret.op = "destroy"
    /\ l_ret.val >= 2

====
